---- MODULE Spec2Model ----
(***************************************************************************)
(* A model of the chatwork-go client: client construction, the two        *)
(* request builders, dispatch (Do), response classification                *)
(* (CheckResponse), body decoding, APIError rendering and the endpoint     *)
(* methods built on them.                                                  *)
(*                                                                         *)
(* Text is modelled as sequences of tokens.  "/", "." and " " are the      *)
(* characters the URL code treats specially; every other token ("rooms",  *)
(* "v2", "api.chatwork.com", "https:") stands for a run of letters that    *)
(* the code passes through unchanged.                                      *)
(***************************************************************************)
EXTENDS Integers, Sequences, FiniteSets, TLC

VARIABLES
    c,          \* the Client: [client, BaseURL, UserAgent, token]
    given,      \* the arguments New was called with: [token, options]
    args,       \* arguments of the last builder call (NoArgs before any)
    req,        \* request returned by the last builder call (NoReq if none)
    buildErr,   \* TRUE iff the last builder call returned an error
    pc,         \* position of the current Do call
    call,       \* the Do call in progress or last returned
    checked,    \* last direct CheckResponse call: [status, body, err]
    rendered,   \* last APIError.Error() call: [e, text]
    ep,         \* the endpoint method in progress or last returned
    ts,         \* a Timestamp and what its methods returned
    par         \* the endpoint calls goroutines run on the one client

vars == <<c, given, args, req, buildErr, pc, call, checked, rendered, ep, ts, par>>

Nil == "nil"

-----------------------------------------------------------------------------
(* Bounds of the model *)

\* longest relative path handed to a builder, in tokens
MaxPathLen == 2
\* most options handed to New
MaxOpts == 2
\* most messages in a directly constructed APIError
MaxMsgs == 2
\* most elements in a list of tasks a response holds
MaxTasks == 3
\* most endpoint calls in progress at once
MaxCalls == 2

-----------------------------------------------------------------------------
(* Generic helpers on token sequences *)

Last(s) == s[Len(s)]

Front(s) == SubSeq(s, 1, Len(s) - 1)

HasPrefix(s, p) == Len(s) >= Len(p) /\ SubSeq(s, 1, Len(p)) = p

\* index of the first / last occurrence of token t in s, 0 when absent
IndexOf(s, t) ==
    IF \E i \in 1..Len(s) : s[i] = t
    THEN CHOOSE i \in 1..Len(s) : s[i] = t /\ \A j \in 1..(i - 1) : s[j] # t
    ELSE 0

LastIndexOf(s, t) ==
    IF \E i \in 1..Len(s) : s[i] = t
    THEN CHOOSE i \in 1..Len(s) : s[i] = t /\ \A j \in (i + 1)..Len(s) : s[j] # t
    ELSE 0

RECURSIVE Concat(_)
\* the text a token sequence spells
Concat(s) == IF s = <<>> THEN "" ELSE Head(s) \o Concat(Tail(s))

RECURSIVE SeqsUpTo(_, _)
\* all sequences over S of length at most n
SeqsUpTo(S, n) ==
    IF n = 0 THEN {<<>>}
    ELSE LET shorter == SeqsUpTo(S, n - 1)
         IN  shorter \cup {Append(s, x) : s \in shorter, x \in S}

-----------------------------------------------------------------------------
(* net/url, as far as the builders use it *)

RECURSIVE TrimRightSlash(_)
\* strings.TrimRight(s, "/")
TrimRightSlash(s) ==
    IF s # <<>> /\ Last(s) = "/" THEN TrimRightSlash(Front(s)) ELSE s

RECURSIVE UnescapePath(_)
\* url.unescape on a path: %20 is read as a space
UnescapePath(p) ==
    IF p = <<>> THEN <<>>
    ELSE <<(IF Head(p) = "%20" THEN " " ELSE Head(p))>> \o UnescapePath(Tail(p))

RECURSIVE EscapePath(_)
\* url.URL.EscapedPath: a space is rendered %20, "/" and "." stay
EscapePath(p) ==
    IF p = <<>> THEN <<>>
    ELSE <<(IF Head(p) = " " THEN "%20" ELSE Head(p))>> \o EscapePath(Tail(p))

\* the tokens that begin with "?": what follows one is the query, which
\* url.Parse keeps as it is
QueryStarts ==
    {"?message_id=", "?force=1", "?status=open", "?account_id=7",
     "?create_download_url=1"}

\* url.Parse on text with an optional "https:" scheme: the authority is what
\* follows "//" up to the next "/" (not taken from scheme-less text that
\* starts "///"); a space in the authority is an error, and so is "%zz" in
\* the path before the query (a percent sign not followed by two
\* hexadecimal digits)
ParseURL(s) ==
    LET hasScheme == s # <<>> /\ Head(s) = "https:"
        rest      == IF hasScheme THEN Tail(s) ELSE s
        hasAuth   == /\ hasScheme \/ ~HasPrefix(rest, <<"/", "/", "/">>)
                     /\ HasPrefix(rest, <<"/", "/">>)
        afterAuth == SubSeq(rest, 3, Len(rest))
        cut       == IndexOf(afterAuth, "/")
        host      == IF ~hasAuth THEN <<>>
                     ELSE IF cut = 0 THEN afterAuth
                     ELSE SubSeq(afterAuth, 1, cut - 1)
        path      == IF ~hasAuth THEN rest
                     ELSE IF cut = 0 THEN <<>>
                     ELSE SubSeq(afterAuth, cut, Len(afterAuth))
    IN  [err    |-> \/ hasAuth /\ \E i \in 1..Len(host) : host[i] = " "
                    \/ \E i \in 1..Len(path) :
                          /\ path[i] = "%zz"
                          /\ \A j \in 1..i : path[j] \notin QueryStarts,
         Scheme |-> IF hasScheme THEN "https" ELSE "",
         Host   |-> host,
         Path   |-> UnescapePath(path)]

\* the zero url.URL
NoURL == [Scheme |-> "", Host |-> <<>>, Path |-> <<>>]

\* url.URL.String
URLString(u) ==
    (IF u.Scheme # "" THEN <<u.Scheme \o ":">> ELSE <<>>)
    \o (IF (u.Scheme # "" \/ u.Host # <<>>) /\ (u.Host # <<>> \/ u.Path # <<>>)
        THEN <<"/", "/">> ELSE <<>>)
    \o u.Host
    \o EscapePath(u.Path)

RECURSIVE SplitSlash(_)
\* strings.Split(s, "/"): the segments of s, as a sequence of sequences
SplitSlash(s) ==
    LET i == IndexOf(s, "/")
    IN  IF i = 0 THEN <<s>>
        ELSE <<SubSeq(s, 1, i - 1)>> \o SplitSlash(SubSeq(s, i + 1, Len(s)))

RECURSIVE RemoveDots(_, _, _)
\* the segment loop of url.resolvePath: dst is the output so far (it starts
\* as "/"), first tells that no segment has been written after that slash
RemoveDots(elems, dst, first) ==
    IF elems = <<>> THEN dst
    ELSE LET elem == Head(elems)
             str  == Tail(dst)
             idx  == LastIndexOf(str, "/")
         IN  IF elem = <<".">>
             THEN RemoveDots(Tail(elems), dst, FALSE)
             ELSE IF elem = <<".", ".">>
             THEN IF idx = 0
                  THEN RemoveDots(Tail(elems), <<"/">>, TRUE)
                  ELSE RemoveDots(Tail(elems),
                                  <<"/">> \o SubSeq(str, 1, idx - 1), first)
             ELSE RemoveDots(Tail(elems),
                             dst \o (IF first THEN <<>> ELSE <<"/">>) \o elem,
                             FALSE)

\* url.resolvePath(base, ref): RFC 3986 section 5.2 merge and dot removal
ResolvePath(base, ref) ==
    LET full  == IF ref = <<>> THEN base
                 ELSE IF Head(ref) # "/"
                 THEN SubSeq(base, 1, LastIndexOf(base, "/")) \o ref
                 ELSE ref
        elems == SplitSlash(full)
        dst   == RemoveDots(elems, <<"/">>, TRUE)
        dst2  == IF Last(elems) \in {<<".">>, <<".", ".">>}
                 THEN Append(dst, "/") ELSE dst
    IN  IF full = <<>> THEN <<>>
        ELSE IF Len(dst2) > 1 /\ dst2[2] = "/" THEN Tail(dst2)
        ELSE dst2

\* url.URL.ResolveReference(ref), for a base with scheme and host
ResolveReference(base, ref) ==
    IF ref.Scheme # "" \/ ref.Host # <<>>
    THEN [Scheme |-> IF ref.Scheme = "" THEN base.Scheme ELSE ref.Scheme,
          Host   |-> ref.Host,
          Path   |-> ResolvePath(ref.Path, <<>>)]
    ELSE [Scheme |-> base.Scheme,
          Host   |-> base.Host,
          Path   |-> ResolvePath(base.Path, ref.Path)]

\* url.URL.Parse(ref): parse the reference, then resolve it against the URL
URLParseRef(base, ref) ==
    LET r == ParseURL(ref)
    IN  IF r.err THEN [err |-> TRUE, url |-> NoURL]
        ELSE [err |-> FALSE,
              url |-> ResolveReference(base, [Scheme |-> r.Scheme,
                                              Host |-> r.Host, Path |-> r.Path])]


-----------------------------------------------------------------------------
(* Client construction *)

\* const defaultBaseURL, as text
defaultBaseURL == <<"https:", "/", "/", "api.chatwork.com", "/", "v2">>

\* const userAgent
userAgent == "chatwork-go"

\* the &http.Client{} New allocates
DefaultHTTPClient == "defaultHTTPClient"

\* the tokens New is called with
Tokens == {"test-token", ""}

\* the *http.Client values a caller passes to OptionHTTPClient
HTTPClients == {"h1", "h2", Nil}

OptionHTTPClient(httpClient) == [kind |-> "OptionHTTPClient", arg |-> httpClient]

OptionDebug(debug) == [kind |-> "OptionDebug", arg |-> debug]

ClientOptions ==
    {OptionHTTPClient(h) : h \in HTTPClients} \cup {OptionDebug(b) : b \in BOOLEAN}

\* ApplyOption with the closure of OptionHTTPClient leaving the client as it is
ApplyOption_KeepDefault(option, cl) == cl

\* ApplyOption with the closure of OptionDebug(true) marking the user agent
ApplyOption_DebugAgent(option, cl) ==
    IF option.kind = "OptionHTTPClient"
    THEN [cl EXCEPT !.client = option.arg]
    ELSE IF option.arg THEN [cl EXCEPT !.UserAgent = userAgent \o "-debug"]
    ELSE cl

\* option(c): the closure an option constructor returns, applied to a client
ApplyOption(option, cl) ==
    IF option.kind = "OptionHTTPClient"
    THEN [cl EXCEPT !.client = option.arg]
    ELSE cl

RECURSIVE ApplyOptions(_, _)
\* for _, option := range options { option(c) }
ApplyOptions(opts, cl) ==
    IF opts = <<>> THEN cl
    ELSE ApplyOptions(Tail(opts), ApplyOption(Head(opts), cl))

\* New(token, options...)
New(token, opts) ==
    LET baseURL == ParseURL(defaultBaseURL)
    IN  ApplyOptions(opts,
            [client    |-> DefaultHTTPClient,
             BaseURL   |-> [Scheme |-> baseURL.Scheme, Host |-> baseURL.Host,
                            Path |-> baseURL.Path],
             UserAgent |-> userAgent,
             token     |-> token])

-----------------------------------------------------------------------------
(* The request builders *)

\* the methods a caller passes; the last is not a valid HTTP method
Methods == {"GET", "POST", "BAD METHOD"}

\* net/http validMethod
ValidMethod(method) == method \in {"GET", "POST", "PUT", "DELETE"}

\* the body arguments a caller passes: the nil interface, a nil *Params
\* pointer, a params struct all of whose fields are empty and tagged
\* omitempty, a params struct with a field set, and a value that neither
\* encoder accepts (a channel)
Bodies == {"nil", "nilptr", "emptyParams", "params", "chan"}

\* json.NewEncoder(buf).Encode(body) with SetEscapeHTML(false)
JSONEncode(body) ==
    CASE body = "nilptr"      -> [err |-> FALSE, bytes |-> "null\n"]
      [] body = "emptyParams" -> [err |-> FALSE, bytes |-> "{\"Name\":\"\"}\n"]
      [] body = "params"      -> [err |-> FALSE, bytes |-> "{\"Name\":\"x\"}\n"]
      [] OTHER                -> [err |-> TRUE, bytes |-> ""]

\* query.Values(body) followed by form.Encode()
FormEncode(body) ==
    CASE body = "nilptr"      -> [err |-> FALSE, bytes |-> ""]
      [] body = "emptyParams" -> [err |-> FALSE, bytes |-> ""]
      [] body = "params"      -> [err |-> FALSE, bytes |-> "name=x"]
      [] OTHER                -> [err |-> TRUE, bytes |-> ""]

\* http.Header.Set
HeaderSet(h, k, v) == [n \in DOMAIN h \cup {k} |-> IF n = k THEN v ELSE h[n]]

NoHeader == [n \in {} |-> ""]

\* no request (the nil *http.Request a failed builder returns)
NoReq == [Method |-> "", URL |-> <<>>, Header |-> NoHeader, Body |-> "", ctx |-> Nil]

\* http.NewRequestWithContext(ctx, method, url, body): bytes is the content
\* of the reader handed over ("" also when the reader is nil)
HTTPNewRequest(ctx, method, url, bytes) ==
    IF ~ValidMethod(method) \/ ctx = Nil \/ ParseURL(url).err
    THEN [err |-> TRUE, req |-> NoReq]
    ELSE [err |-> FALSE,
          req |-> [Method |-> method,
                   URL    |-> URLString(ParseURL(url)),
                   Header |-> NoHeader,
                   Body   |-> bytes,
                   ctx    |-> ctx]]

\* SetHeaders with the package's userAgent constant in place of the
\* client's UserAgent field
SetHeaders_DefaultAgent(cl, r, body, contentType) ==
    LET h0 == IF body # "nil"
              THEN HeaderSet(r.Header, "Content-Type", contentType)
              ELSE r.Header
        h1 == HeaderSet(h0, "Accept", "application/json")
        h2 == HeaderSet(h1, "User-Agent", userAgent)
        h3 == HeaderSet(h2, "X-ChatWorkToken", cl.token)
    IN  [r EXCEPT !.Header = h3]

\* the headers both builders set after http.NewRequestWithContext
SetHeaders(cl, r, body, contentType) ==
    LET h0 == IF body # "nil"
              THEN HeaderSet(r.Header, "Content-Type", contentType)
              ELSE r.Header
        h1 == HeaderSet(h0, "Accept", "application/json")
        h2 == HeaderSet(h1, "User-Agent", cl.UserAgent)
        h3 == HeaderSet(h2, "X-ChatWorkToken", cl.token)
    IN  [r EXCEPT !.Header = h3]

\* JoinURL without the trimming of the base address
JoinURL_NoTrim(cl, urlStr) ==
    LET path == IF ~HasPrefix(urlStr, <<"/">>) THEN <<"/">> \o urlStr ELSE urlStr
    IN  URLString(cl.BaseURL) \o path

\* the URL joining of NewRequestWithContext
JoinURL(cl, urlStr) ==
    LET baseURL == TrimRightSlash(URLString(cl.BaseURL))
        path    == IF ~HasPrefix(urlStr, <<"/">>) THEN <<"/">> \o urlStr ELSE urlStr
    IN  baseURL \o path

\* Client.NewRequestWithContext
NewRequestWithContext(cl, ctx, method, urlStr, body) ==
    LET u   == ParseURL(JoinURL(cl, urlStr))
        enc == JSONEncode(body)
        r   == HTTPNewRequest(ctx, method, URLString(u),
                              IF body # "nil" THEN enc.bytes ELSE "")
    IN  IF u.err THEN [err |-> TRUE, req |-> NoReq]
        ELSE IF body # "nil" /\ enc.err THEN [err |-> TRUE, req |-> NoReq]
        ELSE IF r.err THEN [err |-> TRUE, req |-> NoReq]
        ELSE [err |-> FALSE, req |-> SetHeaders(cl, r.req, body, "application/json")]

\* Client.NewRequest
NewRequest(cl, method, urlStr, body) ==
    NewRequestWithContext(cl, "background", method, urlStr, body)

\* Client.NewFormRequestWithContext
NewFormRequestWithContext(cl, ctx, method, urlStr, body) ==
    LET u   == URLParseRef(cl.BaseURL, urlStr)
        enc == FormEncode(body)
        r   == HTTPNewRequest(ctx, method, URLString(u.url),
                              IF body # "nil" THEN enc.bytes ELSE "")
    IN  IF u.err THEN [err |-> TRUE, req |-> NoReq]
        ELSE IF body # "nil" /\ enc.err THEN [err |-> TRUE, req |-> NoReq]
        ELSE IF r.err THEN [err |-> TRUE, req |-> NoReq]
        ELSE [err |-> FALSE,
              req |-> SetHeaders(cl, r.req, body, "application/x-www-form-urlencoded")]

\* Client.NewFormRequest
NewFormRequest(cl, method, urlStr, body) ==
    NewFormRequestWithContext(cl, "background", method, urlStr, body)

-----------------------------------------------------------------------------
(* Responses, classification and APIError *)

\* http.StatusNoContent
StatusNoContent == 204

\* status codes a transport delivers, with both edges of the success range
StatusCodes == {199, 200, StatusNoContent, 299, 300, 400, 500}

\* A response body is a sequence of items followed by end of input or by a
\* read error.  An item is one complete JSON value or a run of bytes that is
\* not JSON:
\*   "errors2"  {"errors":["Invalid parameters","Room name is required"]}
\*   "errors0"  {"errors":[]}
\*   "object"   a JSON object without an errors member
\*   "mismatch" JSON of a type the destination cannot hold ({"errors":1}, 1)
\*   "garbage"  bytes that are not JSON
\*   "truncated" the beginning of a JSON object, cut before its end ({"a":)
ValidJSON == {"errors2", "errors0", "object", "mismatch"}

ResponseBodies ==
    {[items |-> i, readErr |-> FALSE] :
        i \in {<<>>, <<"errors2">>, <<"errors0">>, <<"object">>, <<"mismatch">>,
               <<"garbage">>, <<"truncated">>, <<"object", "garbage">>}}
    \cup {[items |-> <<>>, readErr |-> TRUE], [items |-> <<"object">>, readErr |-> TRUE]}

\* error values; kind "nil" is the nil error
NoErr == [kind |-> "nil", StatusCode |-> 0, Method |-> "", URL |-> <<>>,
          Errors |-> <<>>, msg |-> ""]

\* an error that is not an APIError
PlainErr(kind, msg) == [NoErr EXCEPT !.kind = kind, !.msg = msg]

\* &APIError{Response: r, Errors: errors}
APIError(r, errors) ==
    [kind |-> "APIError", StatusCode |-> r.StatusCode, Method |-> r.Request.Method,
     URL |-> r.Request.URL, Errors |-> errors, msg |-> ""]

\* io.ReadAll(r.Body)
ReadAll(body) ==
    [data |-> body.items, err |-> body.readErr,
     read |-> Len(body.items), eof |-> ~body.readErr]

\* json.Unmarshal(data, errorResponse): the Errors it leaves in the APIError
UnmarshalErrors(data) ==
    IF Len(data) = 0
    THEN [err |-> "unexpected end of JSON input", Errors |-> <<>>]
    ELSE IF data[1] = "truncated"
    THEN [err |-> "unexpected end of JSON input", Errors |-> <<>>]
    ELSE IF Len(data) > 1 \/ data[1] = "garbage"
    THEN [err |-> "invalid character", Errors |-> <<>>]
    ELSE IF data[1] = "mismatch"
    THEN [err |-> "cannot unmarshal number into Go struct field", Errors |-> <<>>]
    ELSE IF data[1] = "errors2"
    THEN [err |-> "", Errors |-> <<"Invalid parameters", "Room name is required">>]
    ELSE [err |-> "", Errors |-> <<>>]

\* IsSuccess with the upper edge left out
IsSuccess_Exclusive(code) == 200 <= code /\ code < 299

\* the range test of CheckResponse
IsSuccess(code) == 200 <= code /\ code <= 299

\* CheckResponse with the error of json.Unmarshal dropped
CheckResponse_DropParseError(r) ==
    IF IsSuccess(r.StatusCode)
    THEN [err |-> NoErr, read |-> 0, eof |-> FALSE]
    ELSE LET rd == ReadAll(r.Body)
             um == UnmarshalErrors(rd.data)
         IN  [err  |-> APIError(r, IF rd.err THEN <<>> ELSE um.Errors),
              read |-> rd.read, eof |-> rd.eof]

\* CheckResponse(r), with what it did to r.Body
CheckResponse(r) ==
    IF IsSuccess(r.StatusCode)
    THEN [err |-> NoErr, read |-> 0, eof |-> FALSE]
    ELSE LET rd == ReadAll(r.Body)
             um == UnmarshalErrors(rd.data)
         IN  [err  |-> APIError(r,
                         IF rd.err THEN <<>>
                         ELSE IF um.err # ""
                         THEN <<"Failed to parse error response: " \o um.err>>
                         ELSE um.Errors),
              read |-> rd.read, eof |-> rd.eof]

Digit(d) == CASE d = 0 -> "0" [] d = 1 -> "1" [] d = 2 -> "2" [] d = 3 -> "3"
              [] d = 4 -> "4" [] d = 5 -> "5" [] d = 6 -> "6" [] d = 7 -> "7"
              [] d = 8 -> "8" [] d = 9 -> "9"

RECURSIVE Itoa(_)
\* the %d verb of fmt.Sprintf, for n >= 0
Itoa(n) == IF n < 10 THEN Digit(n) ELSE Itoa(n \div 10) \o Digit(n % 10)

RECURSIVE Join_Reversed(_, _)
\* Join with the elements taken last to first
Join_Reversed(elems, sep) ==
    IF elems = <<>> THEN ""
    ELSE IF Len(elems) = 1 THEN elems[1]
    ELSE Join_Reversed(Tail(elems), sep) \o sep \o elems[1]

RECURSIVE Join(_, _)
\* strings.Join(elems, sep)
Join(elems, sep) ==
    IF elems = <<>> THEN ""
    ELSE IF Len(elems) = 1 THEN elems[1]
    ELSE elems[1] \o sep \o Join(Tail(elems), sep)

\* APIError.Error: fmt.Sprintf("%v %v: %d %v", method, url, status, joined)
Error(e) ==
    e.Method \o " " \o Concat(e.URL) \o ": " \o Itoa(e.StatusCode) \o " "
    \o Join(e.Errors, ", ")

\* the response headers a server may send about its rate limit
RateLimitHeaders ==
    {NoHeader,
     [n \in {"X-RateLimit-Limit", "X-RateLimit-Remaining", "X-RateLimit-Reset"} |->
        CASE n = "X-RateLimit-Limit" -> "300"
          [] n = "X-RateLimit-Remaining" -> "299"
          [] OTHER -> "1609459200"]}

\* strconv.Atoi on the header values the model uses
Atoi(str) ==
    CASE str = "300" -> 300 [] str = "299" -> 299
      [] str = "1609459200" -> 1609459200 [] OTHER -> 0

\* newResponse filling the RateLimit record from the headers
newResponse_ParsesHeaders(r) ==
    LET get(n) == IF n \in DOMAIN r.Header THEN Atoi(r.Header[n]) ELSE 0
    IN  [StatusCode |-> r.StatusCode, Request |-> r.Request, Header |-> r.Header,
         RateLimit |-> [Limit     |-> get("X-RateLimit-Limit"),
                        Remaining |-> get("X-RateLimit-Remaining"),
                        Reset     |-> get("X-RateLimit-Reset")]]

\* newResponse(r): the response wrapped, the RateLimit record left at its
\* zero value
newResponse(r) ==
    [StatusCode |-> r.StatusCode, Request |-> r.Request, Header |-> r.Header,
     RateLimit |-> [Limit |-> 0, Remaining |-> 0, Reset |-> 0]]

-----------------------------------------------------------------------------
(* Dispatch and decoding *)

\* the destinations v passed to Do: the nil interface, a pointer to a
\* result value, an io.Writer
Destinations == {Nil, "struct", "writer"}

\* the contexts passed to Do
Contexts == {"ctx", Nil}

\* what a destination holds before the call: nothing yet, or the result of
\* an earlier call
Priors == {<<>>, <<"prior">>}

\* the errors a transport returns instead of a response; the last is
\* context.Canceled, returned when the request's context is cancelled
TransportErrors == {"dial tcp: connection refused", "context canceled"}

\* what made the http.Client send a second request: nothing, a 302 answer
\* (the second request is a GET) or a 307 answer (the method is kept)
Redirects == {"none", "302", "307"}

\* where the redirecting answers of the model point
RedirectTarget == <<"https:", "/", "/", "www.chatwork.com", "/", "login">>

\* http.Response.Request of the response the http.Client returns for the
\* request r: the last request it made
LastRequest(r, via) ==
    CASE via = "none" -> [Method |-> r.Method, URL |-> r.URL]
      [] via = "302"  -> [Method |-> IF r.Method \in {"GET", "HEAD"} THEN r.Method
                                    ELSE "GET",
                          URL |-> RedirectTarget]
      [] via = "307"  -> [Method |-> r.Method, URL |-> RedirectTarget]

\* the request as sent runs under a context that has been cancelled
Interrupted(k) == k.req.ctx \in k.cancelled

\* json.NewDecoder(body).Decode(v): v is a non-nil pointer; out is what v
\* points to afterwards, given that it held old.  The decoder reads the body
\* in chunks and stops at the end of the first JSON value: ahead tells
\* whether the chunk holding that value also took in the rest of the body.
\* A value cut short makes the decoder read on until the body ends.
Decode(old, body, ahead) ==
    LET n    == Len(body.items)
        rest == [read |-> IF ahead THEN n ELSE 1,
                 eof  |-> ahead /\ ~body.readErr]
    IN  IF n = 0
        THEN [err  |-> IF body.readErr THEN "read error" ELSE "EOF",
              out  |-> old, read |-> 0, eof |-> ~body.readErr]
        ELSE IF body.items[1] = "garbage"
        THEN [err |-> "invalid character", out |-> old,
              read |-> rest.read, eof |-> rest.eof]
        ELSE IF body.items[1] = "truncated"
        THEN [err  |-> IF body.readErr THEN "read error" ELSE "unexpected EOF",
              out  |-> old, read |-> n, eof |-> ~body.readErr]
        ELSE IF body.items[1] = "mismatch"
        THEN [err |-> "cannot unmarshal", out |-> old,
              read |-> rest.read, eof |-> rest.eof]
        ELSE [err |-> "", out |-> <<body.items[1]>>,
              read |-> rest.read, eof |-> rest.eof]

\* Copy with the error of io.Copy dropped
Copy_DropError(old, body) ==
    [err  |-> "",
     out  |-> old \o body.items, read |-> Len(body.items), eof |-> ~body.readErr]

\* io.Copy(w, body): out is what w holds afterwards
Copy(old, body) ==
    [err  |-> IF body.readErr THEN "read error" ELSE "",
     out  |-> old \o body.items, read |-> Len(body.items), eof |-> ~body.readErr]

\* processResponseBody with io.EOF returned like every other decode error
processResponseBody_StrictEOF(v, old, body, ahead) ==
    IF v = "writer"
    THEN LET cp == Copy(old, body)
         IN  [err  |-> IF cp.err # ""
                       THEN PlainErr("copy", "failed to copy response body: " \o cp.err)
                       ELSE NoErr,
              out  |-> cp.out, read |-> cp.read, eof |-> cp.eof]
    ELSE LET dec == Decode(old, body, ahead)
         IN  [err  |-> IF dec.err = "" THEN NoErr
                       ELSE PlainErr("decode", dec.err),
              out  |-> dec.out, read |-> dec.read, eof |-> dec.eof]

\* Client.processResponseBody(v, body)
processResponseBody(v, old, body, ahead) ==
    IF v = "writer"
    THEN LET cp == Copy(old, body)
         IN  [err  |-> IF cp.err # ""
                       THEN PlainErr("copy", "failed to copy response body: " \o cp.err)
                       ELSE NoErr,
              out  |-> cp.out, read |-> cp.read, eof |-> cp.eof]
    ELSE LET dec == Decode(old, body, ahead)
         IN  [err  |-> IF dec.err = "EOF" \/ dec.err = "" THEN NoErr
                       ELSE PlainErr("decode", dec.err),
              out  |-> dec.out, read |-> dec.read, eof |-> dec.eof]

\* no response (the nil *Response)
NoResponse ==
    [StatusCode |-> 0, Request |-> [Method |-> "", URL |-> <<>>], Header |-> NoHeader,
     RateLimit |-> [Limit |-> 0, Remaining |-> 0, Reset |-> 0]]

\* resp.Body as the transport hands it over
FreshBody == [read |-> 0, eof |-> FALSE, closed |-> FALSE]

\* the state of a Do call before it started; before is what the destination
\* held when Do was called and out what it holds now; cancelled is the set of
\* contexts cancelled while the dispatch was pending; terr, gotResp, status,
\* body and ahead record what the transport returned
NoCall ==
    [ctx |-> Nil, req |-> NoReq, v |-> Nil, before |-> <<>>, out |-> <<>>,
     dispatches |-> 0, transport |-> Nil, cancelled |-> {},
     terr |-> "", gotResp |-> FALSE, status |-> 0, body |-> [items |-> <<>>, readErr |-> FALSE],
     ahead |-> FALSE, via |-> "none", header |-> NoHeader,
     stream |-> FreshBody,
     checks |-> 0, decodes |-> 0,
     response |-> NoResponse, hasResponse |-> FALSE, err |-> NoErr]

\* DoReturn without the test for http.StatusNoContent
DoReturn_DecodeNoContent(k, resp) ==
    LET response == newResponse(resp)
        chk      == CheckResponse(resp)
        decode   == k.v # Nil
        prb      == processResponseBody(k.v, k.out, resp.Body, k.ahead)
        k1       == [k EXCEPT !.gotResp = TRUE, !.status = resp.StatusCode,
                              !.body = resp.Body, !.checks = 1,
                              !.response = response, !.hasResponse = TRUE]
    IN  IF chk.err # NoErr
        THEN [k1 EXCEPT !.stream = [read |-> chk.read, eof |-> chk.eof,
                                    closed |-> FALSE],
                        !.err = chk.err]
        ELSE IF decode
        THEN [k1 EXCEPT !.decodes = 1, !.out = prb.out,
                        !.stream = [read |-> prb.read, eof |-> prb.eof,
                                    closed |-> FALSE],
                        !.err = prb.err]
        ELSE [k1 EXCEPT !.err = NoErr]

\* Client.Do from newResponse(resp) to its return statement
DoReturn(k, resp) ==
    LET response == newResponse(resp)
        chk      == CheckResponse(resp)
        decode   == k.v # Nil /\ resp.StatusCode # StatusNoContent
        prb      == processResponseBody(k.v, k.out, resp.Body, k.ahead)
        k1       == [k EXCEPT !.gotResp = TRUE, !.status = resp.StatusCode,
                              !.body = resp.Body, !.checks = 1,
                              !.response = response, !.hasResponse = TRUE]
    IN  IF chk.err # NoErr
        THEN [k1 EXCEPT !.stream = [read |-> chk.read, eof |-> chk.eof,
                                    closed |-> FALSE],
                        !.err = chk.err]
        ELSE IF decode
        THEN [k1 EXCEPT !.decodes = 1, !.out = prb.out,
                        !.stream = [read |-> prb.read, eof |-> prb.eof,
                                    closed |-> FALSE],
                        !.err = prb.err]
        ELSE [k1 EXCEPT !.err = NoErr]

\* DoAfterResponse with Close called before the final return only, not
\* deferred: the early return on an API error leaves the body open
DoAfterResponse_CloseAtEnd(k, resp) ==
    LET k1 == DoReturn(k, resp)
    IN  [k1 EXCEPT !.stream.closed = (k1.err.kind # "APIError")]

\* Client.Do, after c.client.Do(req) returned the response resp: the body of
\* the function, then the deferred resp.Body.Close()
DoAfterResponse(k, resp) ==
    [DoReturn(k, resp) EXCEPT !.stream.closed = TRUE]

\* DoAfterError with one more attempt on the transport before giving up
DoAfterError_Retry(k, e) ==
    [k EXCEPT !.dispatches = k.dispatches + 1,
              !.response = NoResponse, !.hasResponse = FALSE,
              !.err = PlainErr("transport", e)]

\* Client.Do, after c.client.Do(req) returned the error e
DoAfterError(k, e) ==
    [k EXCEPT !.response = NoResponse, !.hasResponse = FALSE,
              !.err = PlainErr("transport", e)]

-----------------------------------------------------------------------------
(* The state machine *)

NoArgs == [fn |-> "", ctx |-> Nil, method |-> "", urlStr |-> <<>>, body |-> "nil"]

NoChecked == [called |-> FALSE, status |-> 0,
              body |-> [items |-> <<>>, readErr |-> FALSE], err |-> NoErr]

NoRendered == [called |-> FALSE, e |-> NoErr, text |-> ""]

\* the zero Message
NoMessage == [AccountID |-> 0, SendTime |-> 0, Body |-> ""]

\* no endpoint method called; phase tells where a method that calls other
\* endpoint methods stands ("fetch" and "create" in Quote, "list" in
\* GetByRoom), dispatches counts the requests it handed to the transport,
\* text, fetch and fetched are Quote's new text, the outcome of its Get call
\* and the message that call decoded, roomID, all and tasks are GetByRoom's
\* argument, the list its List call returned and the list it returns; result
\* is the first value an endpoint method
\* returns (a nil pointer, or a pointer to value), response and err the others
NoEndpoint ==
    [name |-> "", returned |-> FALSE,
     result |-> [isNil |-> TRUE, value |-> <<>>],
     hasResponse |-> FALSE, response |-> NoResponse, err |-> NoErr,
     phase |-> "", dispatches |-> 0,
     text |-> "", fetch |-> [err |-> NoErr, out |-> <<>>], fetched |-> NoMessage,
     roomID |-> 0, all |-> <<>>, tasks |-> <<>>]

\* the endpoint methods modelled, two per builder
Endpoints == {"Rooms.Create", "Rooms.Get", "Messages.Get", "Messages.Update"}

\* the message identifiers a caller passes; the last is not valid in a URL
MessageIDs == {"42", "%zz"}

\* the parameter pointers a caller passes to an endpoint method: a pointer
\* to parameters with a field set, or nil
EndpointParams == {"params", "nilptr"}

\* what an endpoint method does, as a record: the builder it calls, the
\* method and path it passes ("{id}" stands for the message identifier the
\* caller gives), the body ("nil", "caller" for the parameter pointer the
\* caller gives, "params" for a struct the method fills in itself), the
\* destination it hands to Do, and the query it sets on the request after
\* the builder call when the caller gives the optional parameters
Wire(fn, method, path, body, v, query) ==
    [fn |-> fn, method |-> method, path |-> path, body |-> body, v |-> v,
     query |-> query]

\* the endpoint methods that build a request, service by service
EndpointTable(name) ==
    CASE name = "Rooms.List" ->
           Wire("NewRequest", "GET", <<"rooms">>, "nil", "struct", <<>>)
      [] name = "Rooms.Create" ->
           Wire("NewFormRequest", "POST", <<"rooms">>, "caller", "struct", <<>>)
      [] name = "Rooms.Get" ->
           Wire("NewRequest", "GET", <<"rooms", "/", "1">>, "nil", "struct", <<>>)
      [] name = "Rooms.Update" ->
           Wire("NewFormRequest", "PUT", <<"rooms", "/", "1">>, "caller", "struct", <<>>)
      [] name = "Rooms.Delete" ->
           Wire("NewFormRequest", "DELETE", <<"rooms", "/", "1">>, "params", Nil, <<>>)
      [] name = "Rooms.GetMembers" ->
           Wire("NewRequest", "GET", <<"rooms", "/", "1", "/", "members">>, "nil",
                "struct", <<>>)
      [] name = "Rooms.UpdateMembers" ->
           Wire("NewFormRequest", "PUT", <<"rooms", "/", "1", "/", "members">>,
                "caller", "struct", <<>>)
      [] name = "Rooms.GetMessagesReadStatus" ->
           Wire("NewRequest", "GET",
                <<"rooms", "/", "1", "/", "messages", "/", "read", "?message_id=", "{id}">>,
                "nil", "struct", <<>>)
      [] name = "Rooms.MarkMessagesAsRead" ->
           Wire("NewFormRequest", "PUT",
                <<"rooms", "/", "1", "/", "messages", "/", "read">>, "params",
                "struct", <<>>)
      [] name = "Rooms.GetMessagesUnreadCount" ->
           Wire("NewRequest", "GET",
                <<"rooms", "/", "1", "/", "messages", "/", "unread">>, "nil",
                "struct", <<>>)
      [] name = "Rooms.GetFiles" ->
           Wire("NewRequest", "GET", <<"rooms", "/", "1", "/", "files">>, "nil",
                "struct", <<"?account_id=7">>)
      [] name = "Rooms.GetFile" ->
           Wire("NewRequest", "GET", <<"rooms", "/", "1", "/", "files", "/", "3">>,
                "nil", "struct", <<"?create_download_url=1">>)
      [] name = "Rooms.GetTasks" ->
           Wire("NewRequest", "GET", <<"rooms", "/", "1", "/", "tasks">>, "nil",
                "struct", <<"?status=open">>)
      [] name = "Me.Get" ->
           Wire("NewRequest", "GET", <<"me">>, "nil", "struct", <<>>)
      [] name = "Me.GetStatus" ->
           Wire("NewRequest", "GET", <<"my", "/", "status">>, "nil", "struct", <<>>)
      [] name = "Messages.List" ->
           Wire("NewRequest", "GET", <<"rooms", "/", "1", "/", "messages">>, "nil",
                "struct", <<"?force=1">>)
      [] name = "Messages.Create" ->
           Wire("NewFormRequest", "POST", <<"rooms", "/", "1", "/", "messages">>,
                "caller", "struct", <<>>)
      [] name = "Messages.Get" ->
           Wire("NewRequest", "GET",
                <<"rooms", "/", "1", "/", "messages", "/", "{id}">>, "nil",
                "struct", <<>>)
      [] name = "Messages.Update" ->
           Wire("NewFormRequest", "PUT",
                <<"rooms", "/", "1", "/", "messages", "/", "{id}">>, "caller",
                "struct", <<>>)
      [] name = "Messages.Delete" ->
           Wire("NewRequest", "DELETE",
                <<"rooms", "/", "1", "/", "messages", "/", "{id}">>, "nil",
                "struct", <<>>)
      [] name = "Tasks.Create" ->
           Wire("NewFormRequest", "POST", <<"rooms", "/", "1", "/", "tasks">>,
                "caller", "struct", <<>>)
      [] name = "Tasks.Get" ->
           Wire("NewRequest", "GET", <<"rooms", "/", "1", "/", "tasks", "/", "2">>,
                "nil", "struct", <<>>)
      [] name = "Tasks.UpdateStatus" ->
           Wire("NewFormRequest", "PUT",
                <<"rooms", "/", "1", "/", "tasks", "/", "2", "/", "status">>,
                "params", "struct", <<>>)
      [] name = "MyTasks.List" ->
           Wire("NewRequest", "GET", <<"my", "/", "tasks">>, "nil", "struct",
                <<"?status=open">>)
      [] name = "Contacts.List" ->
           Wire("NewRequest", "GET", <<"contacts">>, "nil", "struct", <<>>)
      [] name = "IncomingRequests.List" ->
           Wire("NewRequest", "GET", <<"incoming_requests">>, "nil", "struct", <<>>)
      [] name = "IncomingRequests.Approve" ->
           Wire("NewRequest", "PUT", <<"incoming_requests", "/", "4">>, "nil",
                "struct", <<>>)
      [] name = "IncomingRequests.Reject" ->
           Wire("NewRequest", "DELETE", <<"incoming_requests", "/", "4">>, "nil",
                Nil, <<>>)

\* every endpoint method of EndpointTable
AllEndpoints ==
    {"Rooms.List", "Rooms.Create", "Rooms.Get", "Rooms.Update", "Rooms.Delete",
     "Rooms.GetMembers", "Rooms.UpdateMembers", "Rooms.GetMessagesReadStatus",
     "Rooms.MarkMessagesAsRead", "Rooms.GetMessagesUnreadCount", "Rooms.GetFiles",
     "Rooms.GetFile", "Rooms.GetTasks", "Me.Get", "Me.GetStatus", "Messages.List",
     "Messages.Create", "Messages.Get", "Messages.Update", "Messages.Delete",
     "Tasks.Create", "Tasks.Get", "Tasks.UpdateStatus", "MyTasks.List",
     "Contacts.List", "IncomingRequests.List", "IncomingRequests.Approve",
     "IncomingRequests.Reject"}

\* the methods that append the query to the path they hand to the builder;
\* the others set it on the request the builder returned
QueryInPath == {"Rooms.GetFiles", "Rooms.GetFile"}

RECURSIVE Sprintf(_, _)
\* fmt.Sprintf on a path: the identifier takes the place of its verb
Sprintf(path, id) ==
    IF path = <<>> THEN <<>>
    ELSE <<(IF Head(path) = "{id}" THEN id ELSE Head(path))>> \o Sprintf(Tail(path), id)

\* EndpointBuild with Rooms.Create sending its parameters as JSON
EndpointBuild_JSONCreate(cl, name, messageID, params) ==
    LET w == EndpointTable(name)
    IN  [fn     |-> IF name = "Rooms.Create" THEN "NewRequest" ELSE w.fn,
         method |-> w.method,
         urlStr |-> Sprintf(w.path, messageID)
                    \o (IF name \in QueryInPath /\ params = "params"
                        THEN w.query ELSE <<>>),
         body   |-> IF w.body = "caller" THEN params ELSE w.body,
         v      |-> w.v,
         query  |-> IF name \notin QueryInPath /\ params = "params"
                    THEN w.query ELSE <<>>]

\* the builder call an endpoint method starts with, the destination it
\* hands to Do and the query it sets on the request
EndpointBuild(cl, name, messageID, params) ==
    LET w == EndpointTable(name)
    IN  [fn     |-> w.fn,
         method |-> w.method,
         urlStr |-> Sprintf(w.path, messageID)
                    \o (IF name \in QueryInPath /\ params = "params"
                        THEN w.query ELSE <<>>),
         body   |-> IF w.body = "caller" THEN params ELSE w.body,
         v      |-> w.v,
         query  |-> IF name \notin QueryInPath /\ params = "params"
                    THEN w.query ELSE <<>>]

\* EndpointFailed with the envelope slot filled in
EndpointFailed_WithEnvelope(name) ==
    [NoEndpoint EXCEPT !.name = name, !.returned = TRUE, !.hasResponse = TRUE,
                       !.err = PlainErr("build", "request construction failed")]

\* an endpoint method whose builder call failed: return nil, nil, err
EndpointFailed(name) ==
    [NoEndpoint EXCEPT !.name = name, !.returned = TRUE,
                       !.err = PlainErr("build", "request construction failed")]

\* EndpointReturn handing out the result pointer also when Do failed
EndpointReturn_KeepResult(e, k) ==
    IF e.name = "" THEN e
    ELSE [e EXCEPT !.returned = TRUE,
                   !.result = [isNil |-> FALSE, value |-> k.out],
                   !.hasResponse = k.hasResponse, !.response = k.response,
                   !.err = k.err]

\* an endpoint method after its Do call k returned: nil, resp, err on an
\* error and result, resp, nil otherwise (resp, err for the methods without
\* a result); no endpoint method, no change
EndpointReturn(e, k) ==
    IF e.name = "" THEN e
    ELSE IF k.err # NoErr \/ k.v = Nil
    THEN [e EXCEPT !.returned = TRUE, !.hasResponse = k.hasResponse,
                   !.response = k.response, !.err = k.err]
    ELSE [e EXCEPT !.returned = TRUE,
                   !.result = [isNil |-> FALSE, value |-> k.out],
                   !.hasResponse = k.hasResponse, !.response = k.response]

\* tokens of a relative path
PathTokens == {"rooms", "/", ".", " "}

\* the relative paths handed to the builders
Paths == SeqsUpTo(PathTokens, MaxPathLen)

\* the base addresses a caller stores in the exported field BaseURL
BaseURLs ==
    {[Scheme |-> "https", Host |-> <<"api.chatwork.com">>, Path |-> p] :
        p \in {<<"/", "v2">>, <<"/", "v2", "/">>, <<>>, <<"/">>}}

\* the values a caller stores in the exported field UserAgent
UserAgents == {userAgent, "my-agent"}

\* the state New(token, opts...) leaves
-----------------------------------------------------------------------------
(* Timestamp *)

\* an int64 is four 16-bit words, least significant first (two's complement)
Word == 2^16

Int64(w0, w1, w2, w3) == <<w0, w1, w2, w3>>

\* a + b on int64: Go's addition wraps around
Add64(a, b) ==
    LET s1 == a[1] + b[1]
        s2 == a[2] + b[2] + s1 \div Word
        s3 == a[3] + b[3] + s2 \div Word
        s4 == a[4] + b[4] + s3 \div Word
    IN  <<s1 % Word, s2 % Word, s3 % Word, s4 % Word>>

\* -a on int64
Neg64(a) ==
    Add64(<<Word - 1 - a[1], Word - 1 - a[2], Word - 1 - a[3], Word - 1 - a[4]>>,
          Int64(1, 0, 0, 0))

\* package time: seconds from year 1 to 1970, (1969*365 + 1969/4 - 1969/100
\* + 1969/400) * 86400 = 62135596800, and its negation
unixToInternal == Int64(63232, 30609, 14, 0)

internalToUnix == Neg64(unixToInternal)

\* the locations the process may run with as time.Local
Zones == {[name |-> "UTC", offset |-> 0], [name |-> "JST", offset |-> 32400]}

\* the words timestamps are made of: both ends of the range of a word and
\* of its sign bit
Words == {0, 1, 32767, 32768, Word - 1}

\* the Timestamp values: every combination of the words, and the epoch value
\* 1609459200 of TestTimestamp
Timestamps ==
    {Int64(w0, w1, w2, w3) : w0 \in Words, w1 \in Words, w2 \in Words, w3 \in Words}
    \cup {Int64(26112, 24558, 0, 0)}

\* Time_NoOffset: Time storing the Unix seconds as they are
Time_NoOffset(t, loc) == [wall |-> 0, ext |-> t, loc |-> loc]

\* Timestamp.Time: time.Unix(int64(t), 0), a wall-clock Time without
\* monotonic reading, in the location time.Local
Time(t, loc) == [wall |-> 0, ext |-> Add64(t, unixToInternal), loc |-> loc]

\* Time.Unix
Unix(tm) == Add64(tm.ext, internalToUnix)

\* the Unix seconds that fit the arithmetic of the date below
Small(sec) == sec[3] = 0 /\ sec[4] = 0 /\ sec[2] < 32767

Pad2(n) == Digit(n \div 10) \o Digit(n % 10)

\* the civil date of day number days (days since 1970-01-01)
Date(days) ==
    LET z   == days + 719468
        era == z \div 146097
        doe == z - era * 146097
        yoe == (doe - doe \div 1460 + doe \div 36524 - doe \div 146096) \div 365
        doy == doe - (365 * yoe + yoe \div 4 - yoe \div 100)
        mp  == (5 * doy + 2) \div 153
        m   == IF mp < 10 THEN mp + 3 ELSE mp - 9
    IN  [year  |-> yoe + era * 400 + (IF m <= 2 THEN 1 ELSE 0),
         month |-> m,
         day   |-> doy - (153 * mp + 2) \div 5 + 1]

\* the zone part of the layout: "-0700 MST"
ZoneText(loc) ==
    "+" \o Pad2(loc.offset \div 3600) \o Pad2((loc.offset % 3600) \div 60)
    \o " " \o loc.name

\* Time.String on a Time without monotonic reading: Format with the layout
\* "2006-01-02 15:04:05.999999999 -0700 MST".  The fields are computed for
\* the Unix seconds of Small; for the others each field stands as its
\* layout letter, between the same separators.
TimeString(tm) ==
    LET sec == Unix(tm)
    IN  IF Small(sec)
        THEN LET abs == sec[1] + Word * sec[2] + tm.loc.offset
                 d   == Date(abs \div 86400)
                 rem == abs % 86400
             IN  Itoa(d.year) \o "-" \o Pad2(d.month) \o "-" \o Pad2(d.day)
                 \o " " \o Pad2(rem \div 3600) \o ":" \o Pad2((rem % 3600) \div 60)
                 \o ":" \o Pad2(rem % 60) \o " " \o ZoneText(tm.loc)
        ELSE "Y-M-D h:m:s " \o ZoneText(tm.loc)

\* String_Empty: String giving nothing for the zero Timestamp
String_Empty(t, loc) ==
    IF t = Int64(0, 0, 0, 0) THEN "" ELSE TimeString(Time(t, loc))

\* Timestamp.String
String(t, loc) == TimeString(Time(t, loc))

\* no Timestamp at hand; time, unix, text and timeText are what t.Time(),
\* t.Time().Unix(), t.String() and t.Time().String() returned
NoTimestamp ==
    [stage |-> "none", t |-> Int64(0, 0, 0, 0), loc |-> [name |-> "UTC", offset |-> 0],
     time |-> [wall |-> 0, ext |-> Int64(0, 0, 0, 0), loc |-> [name |-> "UTC", offset |-> 0]],
     unix |-> Int64(0, 0, 0, 0), text |-> "", timeText |-> ""]

\* a goroutine's endpoint call: what it was called with (in), what the
\* transport answered (answer), and the call's own request, Do call and
\* return values; overlapped tells that another call was in progress
\* while this one was
NoAnswer == [kind |-> "none", e |-> "", status |-> 0,
             body |-> [items |-> <<>>, readErr |-> FALSE]]

NoPar ==
    [pc |-> "idle", in |-> [name |-> "", id |-> "", params |-> ""],
     answer |-> NoAnswer, req |-> NoReq, call |-> NoCall, ep |-> NoEndpoint,
     overlapped |-> FALSE]

-----------------------------------------------------------------------------

InitWith(token, opts) ==
    /\ c = New(token, opts)
    /\ given = [token |-> token, options |-> opts]
    /\ args = NoArgs
    /\ req = NoReq
    /\ buildErr = FALSE
    /\ pc = "idle"
    /\ call = NoCall
    /\ checked = NoChecked
    /\ rendered = NoRendered
    /\ ep = NoEndpoint
    /\ ts = NoTimestamp
    /\ par = [i \in 1..MaxCalls |-> NoPar]

Init == \E token \in Tokens, opts \in SeqsUpTo(ClientOptions, MaxOpts) :
            InitWith(token, opts)

\* New(token) without options
InitPlain == \E token \in Tokens : InitWith(token, <<>>)

\* the caller assigns the exported field BaseURL before using the client
SetBaseURL(u) ==
    /\ args = NoArgs /\ pc = "idle"
    /\ c.BaseURL # u
    /\ c' = [c EXCEPT !.BaseURL = u]
    /\ UNCHANGED <<ts, par, given, args, req, buildErr, pc, call, checked, rendered, ep>>

\* the caller assigns the exported field UserAgent before using the client
SetUserAgent(ua) ==
    /\ args = NoArgs /\ pc = "idle"
    /\ c.UserAgent # ua
    /\ c' = [c EXCEPT !.UserAgent = ua]
    /\ UNCHANGED <<ts, par, given, args, req, buildErr, pc, call, checked, rendered, ep>>

\* Built with the builder writing the URL it computed through the pointer
\* in c.BaseURL
Built_SharesBaseURL(a, result) ==
    /\ pc = "idle" /\ args = NoArgs /\ ep = NoEndpoint
    /\ args' = a
    /\ req' = result.req
    /\ buildErr' = result.err
    /\ c' = IF result.err THEN c
            ELSE LET u == ParseURL(result.req.URL)
                 IN  [c EXCEPT !.BaseURL = [Scheme |-> u.Scheme, Host |-> u.Host,
                                            Path |-> u.Path]]
    /\ UNCHANGED <<ts, par, given, pc, call, checked, rendered, ep>>

\* a builder call returned result: the caller now holds its request or error
Built(a, result) ==
    /\ pc = "idle" /\ args = NoArgs /\ ep = NoEndpoint
    /\ args' = a
    /\ req' = result.req
    /\ buildErr' = result.err
    /\ UNCHANGED <<ts, par, c, given, pc, call, checked, rendered, ep>>

\* the caller is done with the request and with what Do returned for it
Discard ==
    /\ pc \in {"idle", "returned"} /\ args # NoArgs
    /\ args' = NoArgs
    /\ req' = NoReq
    /\ buildErr' = FALSE
    /\ pc' = "idle"
    /\ call' = NoCall
    /\ ep' = NoEndpoint
    /\ UNCHANGED <<ts, par, c, given, checked, rendered>>

CallNewRequest(method, urlStr, body) ==
    Built([fn |-> "NewRequest", ctx |-> "background", method |-> method,
           urlStr |-> urlStr, body |-> body],
          NewRequest(c, method, urlStr, body))

CallNewRequestWithContext(ctx, method, urlStr, body) ==
    Built([fn |-> "NewRequestWithContext", ctx |-> ctx, method |-> method,
           urlStr |-> urlStr, body |-> body],
          NewRequestWithContext(c, ctx, method, urlStr, body))

CallNewFormRequest(method, urlStr, body) ==
    Built([fn |-> "NewFormRequest", ctx |-> "background", method |-> method,
           urlStr |-> urlStr, body |-> body],
          NewFormRequest(c, method, urlStr, body))

CallNewFormRequestWithContext(ctx, method, urlStr, body) ==
    Built([fn |-> "NewFormRequestWithContext", ctx |-> ctx, method |-> method,
           urlStr |-> urlStr, body |-> body],
          NewFormRequestWithContext(c, ctx, method, urlStr, body))

\* WithContext with the request left under the context it was built with
WithContext_Keep(r, ctx) == r

\* req.WithContext(ctx): a copy of the request under the context ctx
WithContext(r, ctx) == [r EXCEPT !.ctx = ctx]

\* Client.Do up to the call of the transport: req.WithContext(ctx) panics on
\* a nil context, c.client.Do on a nil *http.Client
DoStart(cl, ctx, r, v, old) ==
    IF ctx = Nil \/ cl.client = Nil
    THEN [NoCall EXCEPT !.ctx = ctx, !.v = v, !.before = old, !.out = old]
    ELSE [NoCall EXCEPT !.ctx = ctx, !.v = v, !.before = old, !.out = old,
                        !.req = WithContext(r, ctx),
                        !.dispatches = 1, !.transport = cl.client]

\* Do(ctx, req, v) called by the user of the client with a request a builder
\* returned; old is what v holds
DoDispatch(ctx, v, old) ==
    /\ pc = "idle" /\ args # NoArgs /\ ~buildErr /\ ep = NoEndpoint
    /\ v = Nil => old = <<>>
    /\ call' = DoStart(c, ctx, req, v, old)
    /\ pc' = IF call'.dispatches = 0 THEN "panicked" ELSE "pending"
    /\ UNCHANGED <<ts, par, c, given, args, req, buildErr, checked, rendered, ep>>

\* an endpoint method of client cl, from its builder call to the call of the
\* transport in Do (or to its return, when the builder call fails): e is the
\* method as the caller sees it, name the method whose request is built
EndpointStart(cl, e, name, ctx, messageID, params) ==
    LET Dispatch(b, result, started) ==
            [args     |-> [fn |-> b.fn, ctx |-> "background", method |-> b.method,
                           urlStr |-> b.urlStr, body |-> b.body],
             req      |-> started.sent,
             buildErr |-> result.err,
             ep       |-> IF result.err THEN EndpointFailed(e.name)
                          ELSE [e EXCEPT !.dispatches = started.call.dispatches],
             call     |-> IF result.err THEN NoCall ELSE started.call,
             pc       |-> IF result.err THEN "idle"
                          ELSE IF started.call.dispatches = 0 THEN "panicked"
                          ELSE "pending"]
        WithQuery(b, result, r) ==
            Dispatch(b, result, [sent |-> r, call |-> DoStart(cl, ctx, r, b.v, <<>>)])
        Build(b, result) ==
            WithQuery(b, result, IF result.err THEN result.req
                                 ELSE [result.req EXCEPT !.URL = @ \o b.query])
        Start(b) ==
            Build(b, IF b.fn = "NewRequest"
                     THEN NewRequest(cl, b.method, b.urlStr, b.body)
                     ELSE NewFormRequest(cl, b.method, b.urlStr, b.body))
    IN  Start(EndpointBuild(cl, name, messageID, params))

\* the caller calls an endpoint method of c
BeginEndpoint(e, name, ctx, messageID, params) ==
    /\ pc = "idle" /\ args = NoArgs /\ ep = NoEndpoint
    /\ \E n \in {EndpointStart(c, e, name, ctx, messageID, params)} :
        /\ args' = n.args
        /\ req' = n.req
        /\ buildErr' = n.buildErr
        /\ ep' = n.ep
        /\ call' = n.call
        /\ pc' = n.pc
    /\ UNCHANGED <<ts, par, c, given, checked, rendered>>

\* an endpoint method that builds one request and hands it to Do
CallEndpoint(name, ctx, messageID, params) ==
    BeginEndpoint([NoEndpoint EXCEPT !.name = name], name, ctx, messageID, params)

\* the caller cancels the context ctx while the transport has not answered
Cancel(ctx) ==
    /\ pc = "pending"
    /\ ctx \notin call.cancelled
    /\ call' = [call EXCEPT !.cancelled = call.cancelled \cup {ctx}]
    /\ UNCHANGED <<ts, par, c, given, args, req, buildErr, pc, checked, rendered, ep>>

\* the transport fails: Do returns nil, err, and the endpoint method that
\* called Do returns in turn.  The transport gives up with context.Canceled
\* exactly when the context of the request it was handed is cancelled.
DoTransportError(e) ==
    /\ pc = "pending" /\ ep.phase \notin {"fetch", "list"}
    /\ (e = "context canceled") <=> Interrupted(call)
    /\ call' = DoAfterError([call EXCEPT !.terr = e], e)
    /\ ep' = EndpointReturn(ep, call')
    /\ pc' = "returned"
    /\ UNCHANGED <<ts, par, c, given, args, req, buildErr, checked, rendered>>

\* the transport delivers a response: Do runs to its return, and the
\* endpoint method that called Do returns in turn
DoResponse(status, body, ahead, via, header) ==
    /\ pc = "pending" /\ ep.phase \notin {"fetch", "list"}
    /\ ~Interrupted(call)
    /\ call' = DoAfterResponse([call EXCEPT !.ahead = ahead, !.via = via,
                                            !.header = header],
                   [StatusCode |-> status,
                    Request |-> LastRequest(call.req, via),
                    Header |-> header,
                    Body |-> body])
    /\ ep' = EndpointReturn(ep, call')
    /\ pc' = "returned"
    /\ UNCHANGED <<ts, par, c, given, args, req, buildErr, checked, rendered>>

\* what the message bodies of the model decode to: "message" is
\* {"account":{"account_id":7},"body":"hello","send_time":1609459200}, and
\* every other JSON object leaves the fields of the Message zero
MessageOf(out) ==
    IF out = <<"message">>
    THEN [AccountID |-> 7, SendTime |-> 1609459200, Body |-> "hello"]
    ELSE NoMessage

\* Quote's fmt.Sprintf, piece by piece
quotedBody(message, body) ==
    <<"[qt][qtmeta aid=", Itoa(message.AccountID), " time=",
      Itoa(message.SendTime), "]", message.Body, "[/qt]\n", body>>

\* url.QueryEscape on the pieces of quotedBody and on the texts
QueryEscape(piece) ==
    CASE piece = "[qt][qtmeta aid=" -> "%5Bqt%5D%5Bqtmeta+aid%3D"
      [] piece = " time="           -> "+time%3D"
      [] piece = "]"                -> "%5D"
      [] piece = "[/qt]\n"          -> "%5B%2Fqt%5D%0A"
      [] piece = "a b"              -> "a+b"
      [] OTHER                      -> piece

RECURSIVE EscapeAll(_)
EscapeAll(pieces) ==
    IF pieces = <<>> THEN ""
    ELSE QueryEscape(Head(pieces)) \o EscapeAll(Tail(pieces))

\* query.Values and Encode on a MessageCreateParams whose Body is the text
\* made of pieces: the omitempty field is left out when the text is empty
MessageForm(pieces) ==
    IF EscapeAll(pieces) = "" THEN "" ELSE "body=" \o EscapeAll(pieces)

\* Create as Quote calls it: the form request for the quoted text
QuoteCreate(cl, pieces) ==
    LET Fill(b, built) ==
            [args |-> [fn |-> b.fn, ctx |-> "background", method |-> b.method,
                       urlStr |-> b.urlStr, body |-> b.body],
             req  |-> [built.req EXCEPT !.Body = MessageForm(pieces)],
             v    |-> b.v]
        Build(b) == Fill(b, NewFormRequest(cl, b.method, b.urlStr, b.body))
    IN  Build(EndpointBuild(cl, "Messages.Create", "", "params"))

\* QuoteAfterGet going on to Create whatever Get returned
QuoteAfterGet_CreateAnyway(cl, e, k) ==
    LET Go(message, create, started) ==
            [ep   |-> [e EXCEPT !.phase = "create",
                                !.fetch = [err |-> k.err, out |-> k.out],
                                !.fetched = message,
                                !.dispatches = e.dispatches + started.dispatches],
             call |-> started, args |-> create.args, req |-> create.req,
             pc   |-> "pending"]
        Create(message, create) ==
            Go(message, create, DoStart(cl, k.ctx, create.req, create.v, <<>>))
        Quoting(message) ==
            Create(message, QuoteCreate(cl, quotedBody(message, e.text)))
    IN  Quoting(MessageOf(k.out))

\* Quote after its Get call k returned: nil, nil, err on an error, and the
\* call of Create with the quoted text otherwise, up to the transport
QuoteAfterGet(cl, e, k) ==
    LET Go(message, create, started) ==
            [ep   |-> [e EXCEPT !.phase = "create",
                                !.fetch = [err |-> k.err, out |-> k.out],
                                !.fetched = message,
                                !.dispatches = e.dispatches + started.dispatches],
             call |-> started, args |-> create.args, req |-> create.req,
             pc   |-> "pending"]
        Create(message, create) ==
            Go(message, create, DoStart(cl, k.ctx, create.req, create.v, <<>>))
        Quoting(message) ==
            Create(message, QuoteCreate(cl, quotedBody(message, e.text)))
    IN  IF k.err # NoErr
        THEN [ep   |-> [e EXCEPT !.returned = TRUE, !.err = k.err,
                                 !.fetch = [err |-> k.err, out |-> k.out]],
              call |-> k, args |-> args, req |-> req, pc |-> "returned"]
        ELSE Quoting(MessageOf(k.out))

\* MessagesService.Quote up to the transport call of its Get
CallQuote(ctx, messageID, text) ==
    BeginEndpoint([NoEndpoint EXCEPT !.name = "Messages.Quote", !.phase = "fetch",
                                     !.text = text],
                  "Messages.Get", ctx, messageID, "nilptr")

\* Quote goes on from the Do call k of its Get
QuoteResume(k) ==
    \E n \in {QuoteAfterGet(c, ep, k)} :
        /\ ep' = n.ep
        /\ call' = n.call
        /\ args' = n.args
        /\ req' = n.req
        /\ pc' = n.pc
        /\ UNCHANGED <<ts, par, c, given, buildErr, checked, rendered>>

\* the transport fails the Get of Quote
QuoteGetError(e) ==
    /\ pc = "pending" /\ ep.phase = "fetch"
    /\ (e = "context canceled") <=> Interrupted(call)
    /\ QuoteResume(DoAfterError([call EXCEPT !.terr = e], e))

\* the transport answers the Get of Quote
QuoteGetResponse(status, body, ahead) ==
    /\ pc = "pending" /\ ep.phase = "fetch"
    /\ ~Interrupted(call)
    /\ QuoteResume(DoAfterResponse([call EXCEPT !.ahead = ahead],
                       [StatusCode |-> status,
                        Request |-> LastRequest(call.req, "none"),
                        Header |-> NoHeader,
                        Body |-> body]))

\* the elements of a decoded []*MyTask: pointers to tasks, and the nil
\* pointer a JSON null decodes to
NilTask == [isNil |-> TRUE, TaskID |-> 0, RoomID |-> 0]

TaskElems ==
    {[isNil |-> FALSE, TaskID |-> 1, RoomID |-> 1],
     [isNil |-> FALSE, TaskID |-> 2, RoomID |-> 2],
     [isNil |-> FALSE, TaskID |-> 3, RoomID |-> 1],
     NilTask}

HasNil(list) == \E i \in 1..Len(list) : list[i].isNil

RECURSIVE GetByRoomFilter_Prepend(_, _)
\* GetByRoomFilter putting each matching task in front of the ones before it
GetByRoomFilter_Prepend(allTasks, roomID) ==
    IF allTasks = <<>> THEN <<>>
    ELSE IF allTasks[Len(allTasks)].RoomID = roomID
    THEN <<allTasks[Len(allTasks)]>>
         \o GetByRoomFilter_Prepend(SubSeq(allTasks, 1, Len(allTasks) - 1), roomID)
    ELSE GetByRoomFilter_Prepend(SubSeq(allTasks, 1, Len(allTasks) - 1), roomID)

RECURSIVE GetByRoomFilter(_, _)
\* the loop of GetByRoom over a list without nil elements
GetByRoomFilter(allTasks, roomID) ==
    IF allTasks = <<>> THEN <<>>
    ELSE IF Head(allTasks).RoomID = roomID
    THEN <<Head(allTasks)>> \o GetByRoomFilter(Tail(allTasks), roomID)
    ELSE GetByRoomFilter(Tail(allTasks), roomID)

\* MyTasksService.GetByRoom up to the transport call of List(ctx, nil)
CallGetByRoom(ctx, roomID) ==
    BeginEndpoint([NoEndpoint EXCEPT !.name = "MyTasks.GetByRoom", !.phase = "list",
                                     !.roomID = roomID],
                  "MyTasks.List", ctx, "", "nilptr")

\* GetByRoom after the Do call k of its List returned, tasks being the list
\* a "tasks" body holds: nil, resp, err on an error; the dereference of a
\* nil element panics; the filtered list, resp, nil otherwise
GetByRoomAfterList(e, k, tasks) ==
    LET allTasks == IF k.out = <<"tasks">> THEN tasks ELSE <<>>
    IN  IF k.err # NoErr
        THEN [ep |-> [e EXCEPT !.returned = TRUE, !.hasResponse = k.hasResponse,
                               !.response = k.response, !.err = k.err],
              pc |-> "returned"]
        ELSE IF HasNil(allTasks)
        THEN [ep |-> [e EXCEPT !.all = allTasks], pc |-> "panicked"]
        ELSE [ep |-> [e EXCEPT !.returned = TRUE, !.all = allTasks,
                               !.tasks = GetByRoomFilter(allTasks, e.roomID),
                               !.result = [isNil |-> GetByRoomFilter(allTasks, e.roomID) = <<>>,
                                           value |-> <<>>],
                               !.hasResponse = k.hasResponse,
                               !.response = k.response],
              pc |-> "returned"]

\* GetByRoom goes on from the Do call k of its List
GetByRoomResume(k, tasks) ==
    \E n \in {GetByRoomAfterList(ep, k, tasks)} :
        /\ ep' = n.ep
        /\ call' = k
        /\ pc' = n.pc
        /\ UNCHANGED <<ts, par, c, given, args, req, buildErr, checked, rendered>>

\* the transport fails the List of GetByRoom
ListError(e) ==
    /\ pc = "pending" /\ ep.phase = "list"
    /\ (e = "context canceled") <=> Interrupted(call)
    /\ GetByRoomResume(DoAfterError([call EXCEPT !.terr = e], e), <<>>)

\* the transport answers the List of GetByRoom
ListResponse(status, body, tasks) ==
    /\ pc = "pending" /\ ep.phase = "list"
    /\ ~Interrupted(call)
    /\ body.items # <<"tasks">> => tasks = <<>>
    /\ GetByRoomResume(DoAfterResponse(call,
                           [StatusCode |-> status,
                            Request |-> LastRequest(call.req, "none"),
                            Header |-> NoHeader,
                            Body |-> body]), tasks)

\* a direct call of CheckResponse, as TestCheckResponse makes it
CallCheckResponse(status, body) ==
    /\ ~checked.called /\ ~rendered.called
    /\ checked' = [called |-> TRUE, status |-> status, body |-> body,
                   err |-> CheckResponse(
                             [StatusCode |-> status,
                              Request |-> [Method |-> "GET", URL |-> <<"/", "test">>],
                              Body |-> body]).err]
    /\ UNCHANGED <<ts, par, c, given, args, req, buildErr, pc, call, rendered, ep>>

\* the messages of a directly constructed APIError
Messages == {"Invalid parameters", "Room name is required"}

\* an APIError value as TestAPIError_Error constructs it
APIErrors ==
    {[kind |-> "APIError", StatusCode |-> s, Method |-> m, URL |-> u,
      Errors |-> e, msg |-> ""] :
        s \in {400, 404, 1000}, m \in {"POST", "GET"},
        u \in {<<"/", "rooms">>, <<"/", "test">>},
        e \in SeqsUpTo(Messages, MaxMsgs)}

\* e.Error() on an APIError, constructed directly or returned by CheckResponse
CallError(e) ==
    /\ e.kind = "APIError" /\ ~rendered.called
    /\ rendered' = [called |-> TRUE, e |-> e, text |-> Error(e)]
    /\ UNCHANGED <<ts, par, c, given, args, req, buildErr, pc, call, checked, ep>>

\* the caller drops the error value and the text
Forget ==
    /\ checked.called \/ rendered.called
    /\ checked' = NoChecked
    /\ rendered' = NoRendered
    /\ UNCHANGED <<ts, par, c, given, args, req, buildErr, pc, call, ep>>

\* the builder calls of the endpoint methods: a GET without body, a form POST
\* with parameters, with a nil parameter pointer, with an unencodable value
NextEndpoint ==
    \/ CallNewRequest("GET", <<"rooms">>, "nil")
    \/ \E body \in {"params", "nilptr", "chan"} :
           CallNewFormRequest("POST", <<"rooms">>, body)

\* Do on a destination that holds nothing yet, with a decoder that reads no
\* further than the value it decodes
NextDo ==
    \/ \E ctx \in Contexts, v \in Destinations : DoDispatch(ctx, v, <<>>)
    \/ Cancel("ctx")
    \/ \E e \in TransportErrors : DoTransportError(e)
    \/ \E status \in StatusCodes, body \in ResponseBodies :
           DoResponse(status, body, FALSE, "none", NoHeader)

Next == NextEndpoint \/ NextDo \/ Discard

Spec == Init /\ [][Next]_vars

\* the builders alone, over every path and base address
NextBuild ==
    \/ \E u \in BaseURLs : SetBaseURL(u)
    \/ \E ua \in UserAgents : SetUserAgent(ua)
    \/ /\ args = NoArgs
       /\ \E method \in Methods, urlStr \in Paths, body \in Bodies :
        \/ CallNewRequest(method, urlStr, body)
        \/ CallNewRequestWithContext("ctx", method, urlStr, body)
        \/ CallNewFormRequest(method, urlStr, body)
        \/ CallNewFormRequestWithContext("ctx", method, urlStr, body)
    \/ Discard

SpecBuild == InitPlain /\ [][NextBuild]_vars

\* classification and rendering alone
NextCheck ==
    \/ \E status \in StatusCodes, body \in ResponseBodies :
           CallCheckResponse(status, body)
    \/ ~checked.called /\ \E e \in APIErrors : CallError(e)
    \/ checked.called /\ CallError(checked.err)
    \/ Forget

SpecCheck == InitPlain /\ [][NextCheck]_vars

\* a client built without options: the builders, Do on every destination
\* and the endpoint methods, with cancellation of the caller's context
NextCall ==
    \/ NextEndpoint
    \/ \E ctx \in Contexts, v \in Destinations, old \in Priors :
           DoDispatch(ctx, v, old)
    \/ \E name \in Endpoints, ctx \in Contexts, id \in MessageIDs,
          params \in EndpointParams : CallEndpoint(name, ctx, id, params)
    \/ Cancel("ctx")
    \/ \E e \in TransportErrors : DoTransportError(e)
    \/ \E status \in StatusCodes, body \in ResponseBodies, ahead \in BOOLEAN,
          via \in Redirects, header \in RateLimitHeaders :
           DoResponse(status, body, ahead, via, header)
    \/ Discard

SpecCall == InitPlain /\ [][NextCall]_vars

\* every endpoint method of the table, each answered once
NextWire ==
    \/ \E name \in AllEndpoints, id \in MessageIDs, params \in EndpointParams :
           CallEndpoint(name, "ctx", id, params)
    \/ \E e \in TransportErrors : DoTransportError(e)
    \/ \E status \in StatusCodes :
           DoResponse(status, [items |-> <<"object">>, readErr |-> FALSE], FALSE,
                      "none", NoHeader)
    \/ Discard

SpecWire == InitPlain /\ [][NextWire]_vars

\* the endpoint methods of the concurrent calls
ParEndpoints == {"Rooms.Get", "Messages.Update"}

\* the calls other than i that are between call and return
InProgress(p, i) == {j \in DOMAIN p \ {i} : p[j].pc = "pending"}

\* ParStore with the decoded value written to one destination that all the
\* calls return
ParStore_SharedResult(p, i, q) ==
    [j \in DOMAIN p |->
        IF j = i THEN q
        ELSE IF p[j].ep.returned /\ ~p[j].ep.result.isNil
        THEN [p[j] EXCEPT !.ep.result = q.ep.result]
        ELSE p[j]]

\* the calls after call i moved to q: the request, the Do call, the
\* destination and the return values are locals of the goroutine of call i
ParStore(p, i, q) == [p EXCEPT ![i] = q]

\* goroutine i calls an endpoint method of c
ParCall(i, name, messageID, params) ==
    /\ par[i].pc = "idle"
    /\ \E n \in {EndpointStart(c, [NoEndpoint EXCEPT !.name = name], name, "ctx",
                                messageID, params)} :
       \E others \in {IF n.buildErr THEN {} ELSE InProgress(par, i)} :
           par' = ParStore([j \in DOMAIN par |->
                               IF j \in others
                               THEN [par[j] EXCEPT !.overlapped = TRUE] ELSE par[j]],
                           i,
                           [NoPar EXCEPT !.pc = IF n.buildErr THEN "returned" ELSE n.pc,
                                         !.in = [name |-> name, id |-> messageID,
                                                 params |-> params],
                                         !.req = n.req, !.call = n.call, !.ep = n.ep,
                                         !.overlapped = others # {}])
    /\ UNCHANGED <<c, given, args, req, buildErr, pc, call, checked, rendered, ep, ts>>

\* the transport fails the request of call i
ParTransportError(i, e) ==
    /\ par[i].pc = "pending"
    /\ e # "context canceled"
    /\ \E k \in {DoAfterError([par[i].call EXCEPT !.terr = e], e)} :
          par' = ParStore(par, i,
                     [par[i] EXCEPT !.pc = "returned",
                                    !.answer = [NoAnswer EXCEPT !.kind = "error", !.e = e],
                                    !.call = k,
                                    !.ep = EndpointReturn(par[i].ep, k)])
    /\ UNCHANGED <<c, given, args, req, buildErr, pc, call, checked, rendered, ep, ts>>

\* the transport answers the request of call i
ParResponse(i, status, body) ==
    /\ par[i].pc = "pending"
    /\ \E k \in {DoAfterResponse(par[i].call,
                     [StatusCode |-> status,
                      Request |-> LastRequest(par[i].call.req, "none"),
                      Header |-> NoHeader,
                      Body |-> body])} :
          par' = ParStore(par, i,
                     [par[i] EXCEPT !.pc = "returned",
                                    !.answer = [kind |-> "response", e |-> "",
                                                status |-> status, body |-> body],
                                    !.call = k,
                                    !.ep = EndpointReturn(par[i].ep, k)])
    /\ UNCHANGED <<c, given, args, req, buildErr, pc, call, checked, rendered, ep, ts>>

\* the caller of call i is done with what it returned
ParDiscard(i) ==
    /\ par[i].pc = "returned"
    /\ par' = ParStore(par, i, NoPar)
    /\ UNCHANGED <<c, given, args, req, buildErr, pc, call, checked, rendered, ep, ts>>

\* endpoint calls of several goroutines on one client, in every interleaving
NextPar ==
    \/ \E i \in 1..MaxCalls, name \in ParEndpoints, id \in MessageIDs :
           ParCall(i, name, id, "params")
    \/ \E i \in 1..MaxCalls, e \in TransportErrors : ParTransportError(i, e)
    \/ \E i \in 1..MaxCalls, status \in {200, 400},
          items \in {<<"object">>, <<"errors2">>} :
           ParResponse(i, status, [items |-> items, readErr |-> FALSE])
    \/ \E i \in 1..MaxCalls : ParDiscard(i)

SpecPar == InitPlain /\ [][NextPar]_vars

\* a Timestamp value comes up (decoded from a response, or constructed) in
\* a process whose time.Local is loc
NewTimestamp(t, loc) ==
    /\ ts.stage = "none"
    /\ ts' = [NoTimestamp EXCEPT !.stage = "new", !.t = t, !.loc = loc]
    /\ UNCHANGED <<c, given, args, req, buildErr, pc, call, checked, rendered, ep, par>>

\* t.Time() and Unix() on its result, as TestTimestamp calls them
CallTime ==
    /\ ts.stage = "new"
    /\ ts' = [ts EXCEPT !.stage = "timed", !.time = Time(ts.t, ts.loc),
                        !.unix = Unix(Time(ts.t, ts.loc))]
    /\ UNCHANGED <<c, given, args, req, buildErr, pc, call, checked, rendered, ep, par>>

\* t.String(), and String() on the result of t.Time()
CallString ==
    /\ ts.stage = "timed"
    /\ ts' = [ts EXCEPT !.stage = "rendered", !.text = String(ts.t, ts.loc),
                        !.timeText = TimeString(ts.time)]
    /\ UNCHANGED <<c, given, args, req, buildErr, pc, call, checked, rendered, ep, par>>

\* the value goes out of use
DropTimestamp ==
    /\ ts.stage = "rendered"
    /\ ts' = NoTimestamp
    /\ UNCHANGED <<c, given, args, req, buildErr, pc, call, checked, rendered, ep, par>>

NextTime ==
    \/ \E t \in Timestamps, loc \in Zones : NewTimestamp(t, loc)
    \/ CallTime
    \/ CallString
    \/ DropTimestamp

SpecTime == InitPlain /\ [][NextTime]_vars

\* the endpoint methods that call other endpoint methods
NextCompound ==
    \/ \E id \in MessageIDs, text \in {"thanks", "a b"} : CallQuote("ctx", id, text)
    \/ \E roomID \in {1, 2} : CallGetByRoom("ctx", roomID)
    \/ Cancel("ctx")
    \/ \E e \in TransportErrors : QuoteGetError(e)
    \/ \E status \in StatusCodes, ahead \in BOOLEAN,
          items \in {<<>>, <<"message">>, <<"object">>, <<"errors2">>, <<"garbage">>} :
           QuoteGetResponse(status, [items |-> items, readErr |-> FALSE], ahead)
    \/ \E e \in TransportErrors : ListError(e)
    \/ \E status \in StatusCodes, tasks \in SeqsUpTo(TaskElems, MaxTasks),
          items \in {<<>>, <<"tasks">>, <<"mismatch">>, <<"errors2">>, <<"garbage">>} :
           ListResponse(status, [items |-> items, readErr |-> FALSE], tasks)
    \/ \E e \in TransportErrors : DoTransportError(e)
    \/ \E status \in StatusCodes, items \in {<<>>, <<"object">>, <<"errors2">>} :
           DoResponse(status, [items |-> items, readErr |-> FALSE], FALSE, "none",
                      NoHeader)
    \/ Discard

SpecCompound == InitPlain /\ [][NextCompound]_vars

\* net/http returns from a dispatch whose context is cancelled, and every
\* dispatch ends with a response or an error
SpecCancel ==
    SpecCall /\ WF_vars(\E e \in TransportErrors : DoTransportError(e))

-----------------------------------------------------------------------------
(* Properties *)

\* C1: CheckResponse returns no error for every status code in 200..299 and,
\* for every other status code, an APIError whose status code is the one of
\* the response it was given.
C1_CheckResponseClassifies ==
    checked.called =>
        IF checked.status \in 200..299
        THEN checked.err = NoErr
        ELSE /\ checked.err.kind = "APIError"
             /\ checked.err.StatusCode = checked.status

\* a response just above the success range was classified as an APIError
C1_Witness ==
    /\ checked.called
    /\ checked.status = 300
    /\ checked.err.kind = "APIError"
    /\ checked.err.StatusCode = 300

\* the decimal text of the status codes that occur
StatusText(code) ==
    CASE code = 199 -> "199" [] code = 300 -> "300" [] code = 400 -> "400"
      [] code = 404 -> "404" [] code = 500 -> "500" [] code = 1000 -> "1000"

RECURSIVE MessagesText(_)
\* the messages in list order, ", " before every message but the first
MessagesText(msgs) ==
    IF msgs = <<>> THEN ""
    ELSE MessagesText(Front(msgs))
         \o (IF Len(msgs) > 1 THEN ", " ELSE "") \o Last(msgs)

\* C2: APIError.Error() renders "<METHOD> <URL>: <STATUS> <messages>", the
\* status as its decimal number and the messages joined by ", " in list
\* order; POST, /rooms, 400, [Invalid parameters, Room name is required]
\* renders as "POST /rooms: 400 Invalid parameters, Room name is required".
C2_ErrorRendering ==
    rendered.called =>
        /\ rendered.text =
              rendered.e.Method \o " " \o Concat(rendered.e.URL) \o ": "
              \o StatusText(rendered.e.StatusCode) \o " "
              \o MessagesText(rendered.e.Errors)
        /\ ( /\ rendered.e.Method = "POST"
             /\ rendered.e.URL = <<"/", "rooms">>
             /\ rendered.e.StatusCode = 400
             /\ rendered.e.Errors = <<"Invalid parameters", "Room name is required">> )
           => rendered.text
                = "POST /rooms: 400 Invalid parameters, Room name is required"

\* the error of TestAPIError_Error was rendered
C2_Witness ==
    /\ rendered.called
    /\ rendered.e.Method = "POST"
    /\ rendered.e.StatusCode = 400
    /\ rendered.e.Errors = <<"Invalid parameters", "Room name is required">>
    /\ rendered.text = "POST /rooms: 400 Invalid parameters, Room name is required"

JSONBuilders == {"NewRequest", "NewRequestWithContext"}

FormBuilders == {"NewFormRequest", "NewFormRequestWithContext"}

\* a builder call has returned a request
HasRequest == args # NoArgs /\ ~buildErr

RECURSIVE StripLeadingSlashes(_)
StripLeadingSlashes(p) ==
    IF p # <<>> /\ Head(p) = "/" THEN StripLeadingSlashes(Tail(p)) ELSE p

\* the base address as text, without trailing slashes
TrimmedBase == TrimRightSlash(URLString(c.BaseURL))

\* C3 as stated: the JSON-mode builders produce base' + "/" + p', p' being
\* the path with its leading slashes reduced to exactly one (URL text shows
\* a space as %20).
C3_Original ==
    (HasRequest /\ args.fn \in JSONBuilders) =>
        req.URL = TrimmedBase \o <<"/">> \o EscapePath(StripLeadingSlashes(args.urlStr))

\* C3, amended: the JSON-mode builders produce base' + p', where base' is the
\* base address without trailing slashes and p' is the path itself when it
\* starts with a slash and "/" + path otherwise: one slash is added when
\* none leads, further leading slashes are kept.
C3_JoinAddsMissingSlash ==
    (HasRequest /\ args.fn \in JSONBuilders) =>
        req.URL = TrimmedBase
                  \o EscapePath(IF args.urlStr # <<>> /\ Head(args.urlStr) = "/"
                                THEN args.urlStr
                                ELSE <<"/">> \o args.urlStr)

\* NewRequest was given "//" on a base address ending in a slash and kept
\* both slashes
C3_Witness ==
    /\ HasRequest
    /\ args.fn = "NewRequest"
    /\ args.urlStr = <<"/", "/">>
    /\ c.BaseURL.Path = <<"/", "v2", "/">>
    /\ req.URL = <<"https:", "/", "/", "api.chatwork.com", "/", "v2", "/", "/">>

\* a path that is one segment of letters, such as "rooms"
PlainSegment(p) == p # <<>> /\ \A i \in 1..Len(p) : p[i] \notin {"/", ".", " "}

\* C4: for the same base address and the same relative path (already for a
\* path of one plain segment, such as "rooms") the form-mode builders
\* produce the URL the JSON-mode builders produce.
C4_FormURLEqualsJSONURL ==
    (HasRequest /\ args.fn \in FormBuilders /\ PlainSegment(args.urlStr)) =>
        req.URL = NewRequest(c, args.method, args.urlStr, args.body).req.URL

\* the builder of the last call, called again with another path
Rebuild(urlStr) ==
    CASE args.fn = "NewRequest" ->
           NewRequest(c, args.method, urlStr, args.body)
      [] args.fn = "NewRequestWithContext" ->
           NewRequestWithContext(c, args.ctx, args.method, urlStr, args.body)
      [] args.fn = "NewFormRequest" ->
           NewFormRequest(c, args.method, urlStr, args.body)
      [] args.fn = "NewFormRequestWithContext" ->
           NewFormRequestWithContext(c, args.ctx, args.method, urlStr, args.body)

\* C5: for every base address, with or without a trailing slash, and every
\* path segment p (already for a plain segment such as "rooms"), a builder
\* produces the same URL for p and for "/" + p, in JSON mode and in form mode.
C5_LeadingSlashIrrelevant ==
    (HasRequest /\ PlainSegment(args.urlStr)) =>
        LET slashed == Rebuild(<<"/">> \o args.urlStr)
        IN  ~slashed.err /\ slashed.req.URL = req.URL

\* C6: every request a builder returns carries Accept: application/json,
\* User-Agent equal to the client's UserAgent and X-ChatWorkToken equal to
\* the token given to New, with or without a body.
C6_StandardHeaders ==
    HasRequest =>
        /\ {"Accept", "User-Agent", "X-ChatWorkToken"} \subseteq DOMAIN req.Header
        /\ req.Header["Accept"] = "application/json"
        /\ req.Header["User-Agent"] = c.UserAgent
        /\ req.Header["X-ChatWorkToken"] = given.token

\* a form request without body, built by a client whose UserAgent the caller
\* replaced, carries the three headers
C6_Witness ==
    /\ HasRequest
    /\ args.fn = "NewFormRequest"
    /\ args.body = "nil"
    /\ c.UserAgent = "my-agent"
    /\ req.Header["User-Agent"] = "my-agent"
    /\ req.Header["X-ChatWorkToken"] = "test-token"
    /\ req.Header["Accept"] = "application/json"

\* C7: a built request carries Content-Type exactly when it has a non-empty
\* body, application/json in JSON mode and
\* application/x-www-form-urlencoded in form mode, for every body argument,
\* a nil params pointer included.
C7_ContentTypeOnlyWithBody ==
    HasRequest =>
        /\ ("Content-Type" \in DOMAIN req.Header) <=> (req.Body # "")
        /\ "Content-Type" \in DOMAIN req.Header =>
              req.Header["Content-Type"] =
                 IF args.fn \in JSONBuilders THEN "application/json"
                 ELSE "application/x-www-form-urlencoded"

RECURSIVE LastHTTPClient(_, _)
\* the argument of the last OptionHTTPClient among opts, dflt if there is none
LastHTTPClient(opts, dflt) ==
    IF opts = <<>> THEN dflt
    ELSE IF Last(opts).kind = "OptionHTTPClient" THEN Last(opts).arg
    ELSE LastHTTPClient(Front(opts), dflt)

\* C8: after New(token, OptionHTTPClient(h)) every dispatch of Do goes
\* through the transport h and never through the default transport New
\* allocates (with several such options, through the h given last).
C8_CustomTransportUsed ==
    ( /\ \E i \in 1..Len(given.options) : given.options[i].kind = "OptionHTTPClient"
      /\ call.dispatches > 0 ) =>
        /\ call.transport = LastHTTPClient(given.options, DefaultHTTPClient)
        /\ call.transport # DefaultHTTPClient

\* a client built with OptionHTTPClient(h1) alone completed a call through h1
C8_Witness ==
    /\ given.options = <<OptionHTTPClient("h1")>>
    /\ pc = "returned"
    /\ call.dispatches = 1
    /\ call.transport = "h1"

\* C9: when the transport fails, Do returns no response envelope and the
\* transport's error, classifies and decodes nothing, leaves the destination
\* as it was and has invoked the transport exactly once.
C9_TransportErrorPropagated ==
    (pc = "returned" /\ ~call.gotResp) =>
        /\ ~call.hasResponse
        /\ call.response = NoResponse
        /\ call.err.kind = "transport"
        /\ call.err.msg = call.terr
        /\ call.checks = 0
        /\ call.decodes = 0
        /\ call.out = call.before
        /\ call.dispatches = 1

\* a call with a result destination ended on a cancelled context
C9_Witness ==
    /\ pc = "returned"
    /\ call.terr = "context canceled"
    /\ call.v = "struct"
    /\ call.err = PlainErr("transport", "context canceled")
    /\ ~call.hasResponse

\* C10: whenever the transport delivered a response, its body is closed when
\* Do has returned: on an error status, on 204, with a nil destination, on
\* raw passthrough, after a successful decode and after a failed decode or
\* copy.
C10_BodyClosedOnReturn ==
    (pc = "returned" /\ call.gotResp) => call.stream.closed

\* Do returned an API error for a 400 response and the body is closed
C10_Witness ==
    /\ pc = "returned"
    /\ call.gotResp
    /\ call.status = 400
    /\ call.err.kind = "APIError"
    /\ call.stream.closed

\* C11: whenever the transport delivered a response, every byte of its body
\* has been read when Do has returned, whatever the status, the destination
\* and the length of the body.
C11_BodyFullyConsumed ==
    (pc = "returned" /\ call.gotResp) =>
        call.stream.read = Len(call.body.items)

\* the bytes of a body are not one JSON value: there are none, or some of
\* them are not JSON, or the value is cut short
Unparseable(items) ==
    \/ items = <<>>
    \/ \E i \in 1..Len(items) : items[i] \in {"garbage", "truncated"}

\* C12: for a non-2xx response whose body was read and is not JSON (no
\* bytes, bytes that are not JSON, a JSON value cut short or followed by
\* other bytes) CheckResponse returns an APIError whose Errors hold exactly
\* one message, the synthetic one that describes the parse failure.
C12_ParseFailureMessage ==
    ( /\ checked.called
      /\ checked.status < 200 \/ checked.status > 299
      /\ ~checked.body.readErr
      /\ Unparseable(checked.body.items) ) =>
        /\ checked.err.kind = "APIError"
        /\ Len(checked.err.Errors) = 1
        /\ checked.err.Errors[1] \in
             {"Failed to parse error response: unexpected end of JSON input",
              "Failed to parse error response: invalid character"}

\* CheckResponse returned the synthetic message for a 500 with a body that
\* is not JSON
C12_Witness ==
    /\ checked.called
    /\ checked.status = 500
    /\ checked.body = [items |-> <<"garbage">>, readErr |-> FALSE]
    /\ checked.err.Errors = <<"Failed to parse error response: invalid character">>

\* C13: every APIError returned by CheckResponse holds at least one message,
\* whatever the body of the non-2xx response was.
C13_ErrorsNeverEmpty ==
    (checked.called /\ checked.err.kind = "APIError") =>
        Len(checked.err.Errors) >= 1

\* C14: for a response with status 204 Do does not decode and reads nothing
\* of the body, and returns the envelope with a nil error, the destination
\* (nil, a result value or a writer) holding what it held before.
C14_NoContentSkipsDecoding ==
    (pc = "returned" /\ call.gotResp /\ call.status = 204) =>
        /\ call.decodes = 0
        /\ call.stream.read = 0
        /\ call.hasResponse
        /\ call.response.StatusCode = 204
        /\ call.err = NoErr
        /\ call.out = call.before

\* a 204 whose body is not JSON, with a result destination that held an
\* earlier result: no error, the destination as before
C14_Witness ==
    /\ pc = "returned"
    /\ call.gotResp
    /\ call.status = 204
    /\ call.v = "struct"
    /\ call.before = <<"prior">>
    /\ call.body.items = <<"garbage">>
    /\ call.err = NoErr
    /\ call.out = <<"prior">>

\* C15: with a writer as destination and a success status other than 204,
\* what Do has written to the writer is the body as it came, JSON or not,
\* and Do returns an error exactly when the copy failed.
C15_RawPassthrough ==
    ( /\ pc = "returned" /\ call.gotResp /\ call.v = "writer"
      /\ call.status >= 200 /\ call.status <= 299 /\ call.status # 204 ) =>
        /\ call.out = call.before \o call.body.items
        /\ call.body.readErr => call.err.kind = "copy"
        /\ ~call.body.readErr => call.err = NoErr

\* a 200 whose body is a JSON value followed by bytes that are not JSON was
\* appended as it is to what the writer held
C15_Witness ==
    /\ pc = "returned"
    /\ call.v = "writer"
    /\ call.status = 200
    /\ call.before = <<"prior">>
    /\ call.body = [items |-> <<"object", "garbage">>, readErr |-> FALSE]
    /\ call.out = <<"prior", "object", "garbage">>
    /\ call.err = NoErr

\* C16: with a result value as destination and a success status other than
\* 204, a body of zero bytes gives a nil error and leaves the destination
\* as it was, while a body that ends inside a JSON value is an error.
C16_EmptyBodyTolerated ==
    ( /\ pc = "returned" /\ call.gotResp /\ call.v = "struct"
      /\ call.status >= 200 /\ call.status <= 299 /\ call.status # 204 ) =>
        /\ (call.body.items = <<>> /\ ~call.body.readErr) =>
               (call.err = NoErr /\ call.out = call.before)
        /\ (call.body.items # <<>> /\ call.body.items[1] = "truncated") =>
               (call.err.kind = "decode" /\ call.out = call.before)

\* a 200 with an empty body: no error, the earlier result still in place
C16_Witness ==
    /\ pc = "returned"
    /\ call.gotResp
    /\ call.status = 200
    /\ call.v = "struct"
    /\ call.before = <<"prior">>
    /\ call.body = [items |-> <<>>, readErr |-> FALSE]
    /\ call.decodes = 1
    /\ call.err = NoErr
    /\ call.out = <<"prior">>

\* C17: when the body of a success response cannot be decoded into the result
\* value (bytes that are not JSON, or JSON of another type), Do returns an
\* error together with the envelope of the response received, and an endpoint
\* method built on Do returns a nil result, that envelope and that error.
C17_DecodeErrorKeepsEnvelope ==
    ( /\ pc = "returned" /\ call.gotResp /\ call.v = "struct"
      /\ call.status >= 200 /\ call.status <= 299 /\ call.status # 204
      /\ call.body.items # <<>>
      /\ call.body.items[1] \in {"garbage", "mismatch"} ) =>
        /\ call.err.kind = "decode"
        /\ call.hasResponse
        /\ call.response.StatusCode = call.status
        /\ call.response.Request = LastRequest(call.req, call.via)
        /\ call.response.Header = call.header
        /\ ep.name # "" =>
             /\ ep.returned
             /\ ep.result.isNil
             /\ ep.hasResponse
             /\ ep.response = call.response
             /\ ep.err = call.err

\* Rooms.Get received a 200 whose body is of another type than a room and
\* returned nil, the envelope and the decode error
C17_Witness ==
    /\ ep.name = "Rooms.Get"
    /\ ep.returned
    /\ call.status = 200
    /\ call.body.items = <<"mismatch">>
    /\ ep.result.isNil
    /\ ep.hasResponse
    /\ ep.response.StatusCode = 200
    /\ ep.err.kind = "decode"

\* C18: when the builder call of an endpoint method fails, the method
\* returns the builder's error with a nil result and a nil envelope, and no
\* Do call was started: the transport is not invoked.
C18_BuildFailureNoDispatch ==
    (ep.name # "" /\ buildErr) =>
        /\ ep.returned
        /\ ep.err.kind = "build"
        /\ ep.result.isNil
        /\ ~ep.hasResponse
        /\ ep.response = NoResponse
        /\ pc = "idle"
        /\ call = NoCall

\* Messages.Update with a message identifier that is not valid in a URL
\* returned the builder's error without a dispatch
C18_Witness ==
    /\ ep.name = "Messages.Update"
    /\ ep.returned
    /\ buildErr
    /\ Last(args.urlStr) = "%zz"
    /\ ep.err.kind = "build"
    /\ call.dispatches = 0

\* what C19 asks of every state: the request is sent under the context given
\* to Do, and a call whose context was cancelled while it was pending has
\* returned the cancellation error, without envelope, classification or
\* decoding
C19_Safe ==
    /\ (pc \in {"pending", "returned"} /\ call.dispatches > 0) =>
           call.req.ctx = call.ctx
    /\ (pc = "returned" /\ call.ctx \in call.cancelled) =>
           /\ call.err = PlainErr("transport", "context canceled")
           /\ ~call.hasResponse
           /\ call.checks = 0
           /\ call.decodes = 0

\* C19: Do sends the request under the context passed to Do, whatever
\* context it was built with; once that context is cancelled while the
\* dispatch is pending, Do returns, and it returns the cancellation error
\* with no envelope and without decoding.
C19_CancellationUnblocks ==
    /\ []C19_Safe
    /\ (pc = "pending" /\ call.ctx \in call.cancelled) ~> (pc = "returned")

\* a request built under the background context was sent under the context
\* given to Do, which was cancelled: Do returned the cancellation error
C19_Witness ==
    /\ pc = "returned"
    /\ args.ctx = "background"
    /\ call.ctx = "ctx"
    /\ call.req.ctx = "ctx"
    /\ "ctx" \in call.cancelled
    /\ call.err = PlainErr("transport", "context canceled")
    /\ ~call.hasResponse

\* C20: no step of the builders, of Do or of an endpoint method changes the
\* client's base address, token, user-agent string or transport handle.
C20_ConfigurationNeverMutated ==
    [][ /\ c'.BaseURL = c.BaseURL
        /\ c'.token = c.token
        /\ c'.UserAgent = c.UserAgent
        /\ c'.client = c.client ]_vars

\* an endpoint method has returned a result and the client is as New left it
C20_Witness ==
    /\ ep.name = "Rooms.Create"
    /\ ep.returned
    /\ ~ep.result.isNil
    /\ c.BaseURL = [Scheme |-> "https", Host |-> <<"api.chatwork.com">>,
                     Path |-> <<"/", "v2">>]
    /\ c.token = given.token
    /\ c.UserAgent = "chatwork-go"
    /\ c.client = DefaultHTTPClient

\* C22: the method and URL of an APIError that Do returns are those of the
\* request handed to Do, also when the transport followed a redirect before
\* it received the error response.
C22_ErrorShowsOriginalRequest ==
    (pc = "returned" /\ call.err.kind = "APIError") =>
        /\ call.err.Method = call.req.Method
        /\ call.err.URL = call.req.URL

\* C24: every failure during a call reaches the caller as an error that
\* tells it: a transport failure as the transport's error, an error body
\* that cannot be read or parsed as an APIError with a message about it, a
\* success body that cannot be decoded or copied as a decode or copy error.
C24_NoErrorSwallowed ==
    pc = "returned" =>
        /\ call.terr # "" => call.err = PlainErr("transport", call.terr)
        /\ (call.gotResp /\ (call.status < 200 \/ call.status > 299)) =>
              /\ call.err.kind = "APIError"
              /\ (call.body.readErr \/ Unparseable(call.body.items)) =>
                     Len(call.err.Errors) >= 1
        /\ (call.gotResp /\ call.decodes = 1 /\ call.v = "writer"
               /\ call.body.readErr) => call.err.kind = "copy"
        /\ (call.gotResp /\ call.decodes = 1 /\ call.v = "struct"
               /\ call.body.items # <<>>
               /\ call.body.items[1] \in {"garbage", "mismatch", "truncated"}) =>
              call.err.kind = "decode"

\* C25: no operation panics: building, dispatch, classification, decoding
\* and rendering all end by returning, for every client New can build.
C25_NoPanic == pc # "panicked"

RECURSIVE WithoutDebug(_)
\* the options with every OptionDebug left out
WithoutDebug(opts) ==
    IF opts = <<>> THEN <<>>
    ELSE IF Head(opts).kind = "OptionDebug" THEN WithoutDebug(Tail(opts))
    ELSE <<Head(opts)>> \o WithoutDebug(Tail(opts))

\* the client New builds from the options given, OptionDebug left out
PlainClient == New(given.token, WithoutDebug(given.options))

Sent == call.req

HasContentType(r) == "Content-Type" \in DOMAIN r.Header

FormType == "application/x-www-form-urlencoded"

\* the statement of C23 as the spec has it: GET and DELETE without body and
\* Content-Type, POST and PUT with a form-encoded body, never JSON
C23_Original ==
    (ep.name # "" /\ call.dispatches > 0) =>
        /\ Sent.Method \in {"GET", "DELETE"} =>
              (Sent.Body = "" /\ ~HasContentType(Sent))
        /\ Sent.Method \in {"POST", "PUT"} =>
              /\ Sent.Body # ""
              /\ HasContentType(Sent)
              /\ Sent.Header["Content-Type"] = FormType
        /\ HasContentType(Sent) => Sent.Header["Content-Type"] # "application/json"

\* C23: GET requests carry no body and no Content-Type.  DELETE requests
\* carry none either, except that of RoomsService.Delete, which carries the
\* form-encoded action type.  POST and PUT requests carry the form Content-Type
\* and the form encoding of the parameters (empty when the parameters encode
\* to nothing, as a nil pointer does), except that of
\* IncomingRequestsService.Approve, which carries no body and no
\* Content-Type.  No endpoint sends a JSON body.
C23_WireConvention ==
    (ep.name # "" /\ call.dispatches > 0) =>
        /\ Sent.Method \in {"GET", "DELETE", "POST", "PUT"}
        /\ Sent.Method = "GET" => (Sent.Body = "" /\ ~HasContentType(Sent))
        /\ (Sent.Method = "DELETE" /\ ep.name # "Rooms.Delete") =>
              (Sent.Body = "" /\ ~HasContentType(Sent))
        /\ (Sent.Method = "DELETE" /\ ep.name = "Rooms.Delete") =>
              /\ Sent.Body = "name=x"
              /\ HasContentType(Sent)
              /\ Sent.Header["Content-Type"] = FormType
        /\ (Sent.Method \in {"POST", "PUT"} /\ ep.name # "IncomingRequests.Approve") =>
              /\ Sent.Body = (IF args.body = "nilptr" THEN "" ELSE "name=x")
              /\ HasContentType(Sent)
              /\ Sent.Header["Content-Type"] = FormType
        /\ (Sent.Method \in {"POST", "PUT"} /\ ep.name = "IncomingRequests.Approve") =>
              (Sent.Body = "" /\ ~HasContentType(Sent))
        /\ HasContentType(Sent) => Sent.Header["Content-Type"] # "application/json"

\* RoomsService.Delete has sent a DELETE with a form-encoded body
C23_Witness ==
    /\ ep.name = "Rooms.Delete"
    /\ call.dispatches = 1
    /\ Sent.Method = "DELETE"
    /\ Sent.Body = "name=x"
    /\ Sent.Header["Content-Type"] = FormType

\* C29: Quote dispatches the request of Create only after its Get returned
\* without error; the body of that request is the form encoding of the quote
\* block made of the fetched message's account id, send time and body,
\* followed by the new text; when Get fails, the only request Quote has
\* dispatched is the GET and Quote returns nil, nil and the error of Get.
C29_QuoteFetchesThenCreates ==
    ep.name = "Messages.Quote" =>
        /\ ep.phase = "create" =>
              /\ ep.fetch.err = NoErr
              /\ ep.fetched = MessageOf(ep.fetch.out)
              /\ ep.dispatches = 2
              /\ call.req.Method = "POST"
              /\ call.req.Body =
                    "body=%5Bqt%5D%5Bqtmeta+aid%3D" \o Itoa(ep.fetched.AccountID)
                    \o "+time%3D" \o Itoa(ep.fetched.SendTime) \o "%5D"
                    \o ep.fetched.Body \o "%5B%2Fqt%5D%0A" \o QueryEscape(ep.text)
        /\ ep.phase = "fetch" =>
              /\ ep.dispatches <= 1
              /\ call.dispatches = 1 => call.req.Method = "GET"
              /\ ep.returned /\ call.dispatches = 1 =>
                    /\ call.err # NoErr
                    /\ ep.err = call.err
                    /\ ep.result.isNil
                    /\ ~ep.hasResponse

\* Quote fetched message 42 of account 7 and has the request that quotes it
\* in flight
C29_Witness ==
    /\ ep.name = "Messages.Quote" /\ ep.phase = "create" /\ pc = "pending"
    /\ ep.fetched.AccountID = 7
    /\ call.req.Body =
          "body=%5Bqt%5D%5Bqtmeta+aid%3D7+time%3D1609459200%5Dhello%5B%2Fqt%5D%0Aa+b"

\* Quote returned the error of a Get that the API answered with an error
\* status, without a second dispatch
C29_WitnessFetchFailed ==
    /\ ep.name = "Messages.Quote" /\ ep.phase = "fetch" /\ ep.returned
    /\ call.gotResp /\ ep.err.kind = "APIError" /\ ep.dispatches = 1

\* the positions in list all of the tasks of room roomID
RoomPositions(all, roomID) == {i \in 1..Len(all) : all[i].RoomID = roomID}

\* C30: GetByRoom dispatches exactly one request, the GET of my/tasks
\* without a query, and when the list holds tasks only it returns the tasks
\* of that list whose room id is the requested one, each once and in the
\* list's order; when the list call fails it returns no tasks and the
\* envelope and error of the list call.
C30_GetByRoomFilters ==
    ep.name = "MyTasks.GetByRoom" /\ ep.returned =>
        /\ ep.dispatches = 1 /\ call.dispatches = 1
        /\ call.req.Method = "GET"
        /\ call.req.URL = URLString(c.BaseURL) \o <<"/", "my", "/", "tasks">>
        /\ IF call.err # NoErr
           THEN /\ ep.tasks = <<>> /\ ep.result.isNil
                /\ ep.hasResponse = call.hasResponse
                /\ ep.response = call.response
                /\ ep.err = call.err
           ELSE LET idx == RoomPositions(ep.all, ep.roomID)
                IN  /\ ep.err = NoErr
                    /\ ep.hasResponse /\ ep.response = call.response
                    /\ Len(ep.tasks) = Cardinality(idx)
                    /\ \A j \in 1..Len(ep.tasks) :
                          \E i \in idx :
                              /\ Cardinality({h \in idx : h < i}) = j - 1
                              /\ ep.tasks[j] = ep.all[i]

\* GetByRoom for room 1 kept the first and third task of a three-task list
C30_Witness ==
    /\ ep.name = "MyTasks.GetByRoom" /\ ep.returned /\ ep.roomID = 1
    /\ Len(ep.all) = 3 /\ Len(ep.tasks) = 2
    /\ ep.tasks[1].TaskID = 1 /\ ep.tasks[2].TaskID = 3
    /\ ep.all[2].RoomID = 2

\* GetByRoom returned the envelope and error of a failed list call
C30_WitnessListFailed ==
    /\ ep.name = "MyTasks.GetByRoom" /\ ep.returned
    /\ ep.err.kind = "APIError" /\ ep.hasResponse /\ ep.tasks = <<>>

\* C28: for every Timestamp t, t.Time().Unix() is t (1609459200 gives
\* 1609459200), and t.String() is not empty and is the text
\* t.Time().String() gives.
C28_TimestampRoundTrip ==
    /\ ts.stage \in {"timed", "rendered"} => ts.unix = ts.t
    /\ ts.stage = "rendered" => ts.text # "" /\ ts.text = ts.timeText

\* the epoch value of TestTimestamp, converted and printed in UTC
C28_Witness ==
    /\ ts.stage = "rendered"
    /\ ts.t = Int64(26112, 24558, 0, 0)
    /\ ts.unix = Int64(26112, 24558, 0, 0)
    /\ ts.text = "2021-01-01 00:00:00 +0000 UTC"

\* the largest int64: the seconds since year 1 wrapped around, and Unix()
\* wrapped back
C28_WitnessWrap ==
    /\ ts.stage = "timed"
    /\ ts.t = Int64(Word - 1, Word - 1, Word - 1, 32767)
    /\ ts.time.ext[4] >= 32768
    /\ ts.unix = ts.t

\* the same endpoint call run alone on client cl: its request, its Do call
\* and what it returns, for the arguments in and the transport's answer
Alone(cl, in, answer) ==
    LET Return(n, k) ==
            IF n.buildErr \/ answer.kind = "none"
            THEN [req |-> n.req, call |-> n.call, ep |-> n.ep]
            ELSE [req |-> n.req, call |-> k, ep |-> EndpointReturn(n.ep, k)]
        Answer(n) ==
            Return(n, IF answer.kind = "error"
                      THEN DoAfterError([n.call EXCEPT !.terr = answer.e], answer.e)
                      ELSE DoAfterResponse(n.call,
                               [StatusCode |-> answer.status,
                                Request |-> LastRequest(n.call.req, "none"),
                                Header |-> NoHeader,
                                Body |-> answer.body]))
    IN  Answer(EndpointStart(cl, [NoEndpoint EXCEPT !.name = in.name], in.name,
                             "ctx", in.id, in.params))

=============================================================================
